---- MODULE Spec2Model ----
(***************************************************************************)
(* State-machine model of the FinPyME dashboard: the client currency       *)
(* provider (rate refresh, conversion state), the chart bucketing, the     *)
(* cash-flow projection metrics and the REST authorisation layer.          *)
(***************************************************************************)
EXTENDS Integers, Sequences, FiniteSets, TLC

(***************************************************************************)
(* Bounds of the model (not program constants).                            *)
(***************************************************************************)
MaxInFlight == 2

(***************************************************************************)
(* Currency provider: src/client/src/contexts/currency-context.tsx         *)
(***************************************************************************)
VARIABLES
  user,             \* useAuth().user: [present, preferredCurrency]
  localStorage,     \* [preferred_currency, preferred_dollar_type]
  currency,         \* useState<Currency>
  dollarType,       \* useState<DollarType>
  dollarRates,      \* useState(FALLBACK_RATES)
  exchangeRate,     \* useState<number>
  isLoadingRates,   \* useState(false)
  phase,            \* "created" (first render committed) | "mounted"
  pendingEffects,   \* effects whose dependencies changed in the last commit
  inFlight,         \* running fetchExchangeRates calls, by captured dollarType
  lastOutcomes,     \* per-endpoint outcome of the last completed refresh
  raised            \* an exception escaped fetchExchangeRates

currencyVars == <<user, localStorage, currency, dollarType, dollarRates,
                  exchangeRate, isLoadingRates, phase, pendingEffects,
                  inFlight, lastOutcomes, raised>>

(***************************************************************************)
(* RealDataChart: src/unnamed/part_005                                     *)
(***************************************************************************)
VARIABLES
  transactions,     \* the transactions prop: sequence of [date, type, amount]
  localTimeRange,   \* useState(timeRange)
  chartNow,         \* `now` of the last run of the chart effect
  periodData        \* buckets built by the last run of the chart effect

chartVars == <<transactions, localTimeRange, chartNow, periodData>>

(***************************************************************************)
(* InteractiveProjections: src/unnamed/part_004                            *)
(***************************************************************************)
VARIABLES
  storedData,        \* the data prop (stored cash-flow projections)
  projTransactions,  \* the transactions prop
  scenario,          \* useState<Scenario>
  projectionPeriod,  \* useState('6'), as parseInt reads it
  effectiveData,     \* effectiveData of the last render (line 228)
  projectionMetrics, \* projectionMetrics of the last render (line 231)
  projEvaluated      \* calculateProjectionMetrics has run on the inputs

projVars == <<storedData, projTransactions, scenario, projectionPeriod,
              effectiveData, projectionMetrics, projEvaluated>>

\* the REST server (src/server/routes.ts, src/unnamed/part_011)
VARIABLES
  records,   \* per user id, the number of rows created through POST routes
  request,   \* the last request handled
  response   \* the answer to it: status, and whether storage was read or written

serverVars == <<records, request, response>>

\* a consumer of useCurrency() calling formatAmount / convertAmount during a
\* render (currency-context.tsx, lines 124-169)
VARIABLES
  call,      \* the last call: function name and arguments
  result     \* what it returned

useVars == <<call, result>>

\* the session of the signed-in user: AuthProvider (src/unnamed/part_000)
VARIABLES
  authToken,     \* useState<string | null>: `token`
  authUser,      \* useState<User | null>: the id of `user`
  isLoading,     \* useState(true)
  authStorage    \* localStorage keys auth_token, auth_user and token

authVars == <<authToken, authUser, isLoading, authStorage>>

\* the notifications table (src/server/storage.ts, lines 326-380)
VARIABLES
  notifications  \* per notification id: [exists, userId, isRead]

notificationVars == <<notifications>>

\* the two periodic timers of the client (currency-context.tsx 100-105,
\* navigation.tsx 16-20); time passes in ticks of the shorter period
VARIABLES
  sinceRefresh,  \* ticks since the mount effect or the last interval callback
  sincePoll      \* ticks since the last notification-count query

timerVars == <<sinceRefresh, sincePoll>>

sessionVars == <<authVars, notificationVars, timerVars>>

vars == <<currencyVars, chartVars, projVars, serverVars, useVars, sessionVars>>

otherThanCurrency == <<chartVars, projVars, serverVars, useVars, sessionVars>>
otherThanChart == <<currencyVars, projVars, serverVars, useVars, sessionVars>>
otherThanProj == <<currencyVars, chartVars, serverVars, useVars, sessionVars>>
otherThanServer == <<currencyVars, chartVars, projVars, useVars, sessionVars>>
otherThanUse == <<chartVars, projVars, serverVars, sessionVars>>
otherThanAuth == <<currencyVars, chartVars, projVars, serverVars, useVars,
                   notificationVars, timerVars>>
otherThanSession == <<currencyVars, chartVars, projVars, serverVars, useVars>>

Currencies == {"ARS", "USD"}
DollarTypes == {"oficial", "blue", "mep"}

\* localStorage.getItem returns null for an absent key
NULL == "null"

\* strings a profile or the storage may hold besides the valid ones
StoredCurrencies == {NULL, "USD", "EUR"}
StoredDollarTypes == {NULL, "blue", "tarjeta"}
ProfileCurrencies == {"", "USD", "EUR"}

NoUser == [present |-> FALSE, preferredCurrency |-> ""]
Users == {NoUser} \cup {[present |-> TRUE, preferredCurrency |-> c] : c \in ProfileCurrencies}

FALLBACK_RATES == [oficial |-> 1270, blue |-> 1300, mep |-> 1304]

\* numeric values of the venta / compra fields; 0 stands for every falsy
\* value (0, undefined, null), which the || chain treats alike
\* outcome of one quote request
Outcomes ==
  {[kind |-> k, venta |-> 0, compra |-> 0] : k \in {"network", "status"}}
    \cup {[kind |-> "ok", venta |-> 1500, compra |-> 900],
          [kind |-> "ok", venta |-> 0, compra |-> 900],
          [kind |-> "ok", venta |-> 0, compra |-> 0]}

\* the outcomes the preference-centred specification draws from
CoarseOutcomes ==
  {[kind |-> "network", venta |-> 0, compra |-> 0],
   [kind |-> "ok", venta |-> 1500, compra |-> 900]}

NoOutcome == [kind |-> "none", venta |-> 0, compra |-> 0]

\* the try body of one endpoint's async callback (lines 65-71)
FetchBody(type, outcome) ==
  IF outcome.kind # "ok"
    THEN [thrown |-> TRUE, rate |-> 0]
    ELSE [thrown |-> FALSE,
          rate |-> IF outcome.venta # 0 THEN outcome.venta
                   ELSE IF outcome.compra # 0 THEN outcome.compra
                   ELSE FALLBACK_RATES[type]]

\* mutant: the per-request catch is missing, the rejection propagates
FetchPromiseNoCatch(type, outcome) ==
  LET r == FetchBody(type, outcome)
  IN  [rejected |-> r.thrown, type |-> type, rate |-> r.rate]

\* one element of fetchPromises: the callback with its catch (lines 63-79)
FetchPromise(type, outcome) ==
  LET r == FetchBody(type, outcome)
  IN  IF r.thrown
        THEN [rejected |-> FALSE, type |-> type, rate |-> FALLBACK_RATES[type]]
        ELSE [rejected |-> FALSE, type |-> type, rate |-> r.rate]

\* rates.reduce(...) over the settled results (lines 82-85)
ReduceRates(results) ==
  [t \in {results[e].type : e \in DOMAIN results} |->
     results[CHOOSE e \in DOMAIN results : results[e].type = t].rate]

\* mutant: the finally block is missing, the loading flag is never cleared
fetchExchangeRatesNoFinally(captured, outcomes) ==
  LET results == [e \in DollarTypes |-> FetchPromise(e, outcomes[e])]
      newRates == ReduceRates(results)
  IN  [dollarRates |-> newRates, exchangeRate |-> newRates[captured],
       isLoadingRates |-> TRUE, raised |-> FALSE, replaced |-> TRUE]

\* the part of fetchExchangeRates after `await Promise.all` (lines 81-97):
\* `captured` is the dollarType of the closure that was called
fetchExchangeRates(captured, outcomes) ==
  LET results == [e \in DollarTypes |-> FetchPromise(e, outcomes[e])]
      rejected == \E e \in DollarTypes : results[e].rejected
      newRates == ReduceRates(results)
  IN  IF ~rejected
        THEN [dollarRates |-> newRates, exchangeRate |-> newRates[captured],
              isLoadingRates |-> FALSE, raised |-> FALSE, replaced |-> TRUE]
        ELSE [dollarRates |-> FALLBACK_RATES,
              exchangeRate |-> FALLBACK_RATES[captured],
              isLoadingRates |-> FALSE, raised |-> FALSE, replaced |-> FALSE]

\* dollarType of the first render, captured by the closure the mount effect
\* and setInterval keep calling (line 32, lines 100-105)
InitialDollarType == "oficial"

NumInFlight == inFlight["oficial"] + inFlight["blue"] + inFlight["mep"]

\* mutant: the stored dollar type is installed without validation
RestorePrefsUnchecked(u, ls, cur, dt) ==
  [currency |-> IF u.present /\ u.preferredCurrency # "" THEN u.preferredCurrency
                ELSE IF ls.preferred_currency # NULL THEN ls.preferred_currency
                ELSE cur,
   dollarType |-> IF ls.preferred_dollar_type # NULL THEN ls.preferred_dollar_type ELSE dt]

\* body of the [user] effect (lines 37-51)
RestorePrefs(u, ls, cur, dt) ==
  [currency |->
     IF u.present /\ u.preferredCurrency # ""
       THEN u.preferredCurrency
       ELSE IF ls.preferred_currency # NULL /\ ls.preferred_currency \in {"ARS", "USD"}
              THEN ls.preferred_currency
              ELSE cur,
   dollarType |->
     IF ls.preferred_dollar_type # NULL
          /\ ls.preferred_dollar_type \in {"oficial", "blue", "mep"}
       THEN ls.preferred_dollar_type
       ELSE dt]

CurrencyInit(stored) ==
  /\ user = NoUser
  /\ localStorage \in stored
  /\ currency = "ARS"
  /\ dollarType = "oficial"
  /\ dollarRates = FALLBACK_RATES
  /\ exchangeRate = FALLBACK_RATES.oficial
  /\ isLoadingRates = FALSE
  /\ phase = "created"
  /\ pendingEffects = {}
  /\ inFlight = [t \in DollarTypes |-> 0]
  /\ lastOutcomes = [t \in DollarTypes |-> NoOutcome]
  /\ raised = FALSE

\* first flush of effects after the first render: restore (37-51), first
\* refresh and timer start (100-105), rate sync (107-109)
Mount ==
  /\ phase = "created"
  /\ LET r == RestorePrefs(user, localStorage, currency, dollarType)
     IN  /\ currency' = r.currency
         /\ dollarType' = r.dollarType
         /\ pendingEffects' = IF r.dollarType # dollarType THEN {"sync"} ELSE {}
  /\ isLoadingRates' = TRUE
  /\ inFlight' = [inFlight EXCEPT ![InitialDollarType] = @ + 1]
  /\ exchangeRate' = dollarRates[dollarType]
  /\ phase' = "mounted"
  /\ UNCHANGED <<user, localStorage, dollarRates, lastOutcomes, raised>>
  /\ UNCHANGED otherThanCurrency

\* useAuth().user changes (login, register, logout, restored session)
UserChange(u) ==
  /\ phase = "mounted"
  /\ pendingEffects = {}
  /\ u # user
  /\ user' = u
  /\ pendingEffects' = {"restore"}
  /\ UNCHANGED <<localStorage, currency, dollarType, dollarRates, exchangeRate,
                 isLoadingRates, phase, inFlight, lastOutcomes, raised>>
  /\ UNCHANGED otherThanCurrency

\* the [user] effect re-run (lines 37-51)
RestoreEffect ==
  /\ "restore" \in pendingEffects
  /\ LET r == RestorePrefs(user, localStorage, currency, dollarType)
     IN  /\ currency' = r.currency
         /\ dollarType' = r.dollarType
         /\ pendingEffects' = IF r.dollarType # dollarType THEN {"sync"} ELSE {}
  /\ UNCHANGED <<user, localStorage, dollarRates, exchangeRate, isLoadingRates,
                 phase, inFlight, lastOutcomes, raised>>
  /\ UNCHANGED otherThanCurrency

\* the [dollarType, dollarRates] effect (lines 107-109)
SyncEffect ==
  /\ "sync" \in pendingEffects
  /\ "restore" \notin pendingEffects
  /\ exchangeRate' = dollarRates[dollarType]
  /\ pendingEffects' = {}
  /\ UNCHANGED <<user, localStorage, currency, dollarType, dollarRates,
                 isLoadingRates, phase, inFlight, lastOutcomes, raised>>
  /\ UNCHANGED otherThanCurrency

\* setCurrency (lines 111-114)
setCurrency(newCurrency) ==
  /\ phase = "mounted"
  /\ pendingEffects = {}
  /\ currency' = newCurrency
  /\ localStorage' = [localStorage EXCEPT !.preferred_currency = newCurrency]
  /\ UNCHANGED <<user, dollarType, dollarRates, exchangeRate, isLoadingRates,
                 phase, pendingEffects, inFlight, lastOutcomes, raised>>
  /\ UNCHANGED otherThanCurrency

\* setDollarType (lines 116-120)
setDollarType(newDollarType) ==
  /\ phase = "mounted"
  /\ pendingEffects = {}
  /\ dollarType' = newDollarType
  /\ localStorage' = [localStorage EXCEPT !.preferred_dollar_type = newDollarType]
  /\ exchangeRate' = dollarRates[newDollarType]
  /\ pendingEffects' = IF newDollarType # dollarType THEN {"sync"} ELSE {}
  /\ UNCHANGED <<user, currency, dollarRates, isLoadingRates, phase, inFlight,
                 lastOutcomes, raised>>
  /\ UNCHANGED otherThanCurrency

\* start of fetchExchangeRates up to `await Promise.all` (lines 54-81):
\* what it does to the provider
BeginFetch(captured) ==
  /\ NumInFlight < MaxInFlight
  /\ isLoadingRates' = TRUE
  /\ inFlight' = [inFlight EXCEPT ![captured] = @ + 1]
  /\ UNCHANGED <<user, localStorage, currency, dollarType, dollarRates,
                 exchangeRate, phase, pendingEffects, lastOutcomes, raised>>

\* the same, when the passing of time is not observed
StartFetch(captured) ==
  /\ BeginFetch(captured)
  /\ UNCHANGED otherThanCurrency

\* setInterval(fetchExchangeRates, 5 * 60 * 1000) fires (line 103)
TimerRefresh ==
  /\ phase = "mounted"
  /\ pendingEffects = {}
  /\ StartFetch(InitialDollarType)

\* refreshRates from the refresh buttons, disabled while loading
\* (currency-selector.tsx 40-48, settings.tsx 133-143)
ManualRefresh ==
  /\ phase = "mounted"
  /\ pendingEffects = {}
  /\ ~isLoadingRates
  /\ StartFetch(dollarType)

\* the three requests have settled; the rest of fetchExchangeRates runs
CompleteFetch(captured, outcomes) ==
  /\ pendingEffects = {}
  /\ inFlight[captured] > 0
  /\ LET r == fetchExchangeRates(captured, outcomes)
     IN  /\ dollarRates' = r.dollarRates
         /\ exchangeRate' = r.exchangeRate
         /\ isLoadingRates' = r.isLoadingRates
         /\ raised' = (raised \/ r.raised)
         /\ pendingEffects' = IF r.replaced \/ r.dollarRates # dollarRates
                                THEN {"sync"} ELSE {}
  /\ inFlight' = [inFlight EXCEPT ![captured] = @ - 1]
  /\ lastOutcomes' = outcomes
  /\ UNCHANGED <<user, localStorage, currency, dollarType, phase>>
  /\ UNCHANGED otherThanCurrency

\* the provider before its first render, while another component is studied
CurrencyIdle ==
  CurrencyInit({[preferred_currency |-> NULL, preferred_dollar_type |-> NULL]})

(***************************************************************************)
(* RealDataChart bucketing: src/unnamed/part_005, lines 43-208             *)
(*                                                                         *)
(* A Date is a number of ticks of local time since 1 January of year 0;    *)
(* a day has TicksPerDay ticks.  Years have 365 days; the time zone has no *)
(* daylight saving, so a calendar day is always 24 hours long.             *)
(***************************************************************************)
TicksPerDay == 2
DaysPerYear == 365

\* days before the first day of each month (index 1 = January)
CumDays == <<0, 31, 59, 90, 120, 151, 181, 212, 243, 273, 304, 334>>

\* new Date(y, m, d) plus a time of day: month and day overflow roll over into
\* the next (or previous) months, as Date's setters do
MakeTime(y, m, d, tod) ==
  (((y + (m \div 12)) * DaysPerYear + CumDays[(m % 12) + 1] + (d - 1)) * TicksPerDay) + tod

DayOf(t) == t \div TicksPerDay
getTimeOfDay(t) == t % TicksPerDay
getFullYear(t) == DayOf(t) \div DaysPerYear
DayOfYear(t) == DayOf(t) % DaysPerYear
getMonth(t) == CHOOSE m \in 0..11 :
                 /\ CumDays[m + 1] <= DayOfYear(t)
                 /\ (m = 11 \/ DayOfYear(t) < CumDays[m + 2])
getDate(t) == DayOfYear(t) - CumDays[getMonth(t) + 1] + 1

setDate(t, d) == MakeTime(getFullYear(t), getMonth(t), d, getTimeOfDay(t))
setMonth(t, m) == MakeTime(getFullYear(t), m, getDate(t), getTimeOfDay(t))
setFullYear(t, y) == MakeTime(y, getMonth(t), getDate(t), getTimeOfDay(t))

TimeRanges == {"daily", "weekly", "monthly", "yearly"}

\* periods and periodType of the switch on localTimeRange (lines 60-84)
Periods(range) ==
  CASE range = "daily" -> 30
    [] range = "weekly" -> 8
    [] range = "monthly" -> 12
    [] range = "yearly" -> 5

\* startDate of the switch on localTimeRange (lines 55-84)
StartDate(now, range) ==
  CASE range = "daily" -> setDate(now, getDate(now) - 30)
    [] range = "weekly" -> setDate(now, getDate(now) - (8 * 7))
    [] range = "monthly" -> setDate(setMonth(now, getMonth(now) - 11), 1)
    [] range = "yearly" ->
         setDate(setMonth(setFullYear(now, getFullYear(now) - 4), 0), 1)

\* periodIndex of one transaction (lines 126-143)
PeriodIndex(date, startDate, range) ==
  CASE range = "daily" -> (date - startDate) \div TicksPerDay
    [] range = "weekly" -> (date - startDate) \div (TicksPerDay * 7)
    [] range = "monthly" ->
         (getFullYear(date) - getFullYear(startDate)) * 12
           + (getMonth(date) - getMonth(startDate))
    [] range = "yearly" -> getFullYear(date) - getFullYear(startDate)

\* the initialised periods (lines 89-120); bucket i of the source is i + 1 here
EmptyPeriods(range) == [i \in 1..Periods(range) |-> [income |-> 0, expense |-> 0]]

\* transactions.forEach(...) (lines 123-157), from transaction k on
RECURSIVE ProcessTransactions(_, _, _, _, _, _)
ProcessTransactions(txs, k, pd, startDate, now, range) ==
  IF k > Len(txs) THEN pd
  ELSE
    LET tx == txs[k]
        idx == PeriodIndex(tx.date, startDate, range)
        next ==
          IF tx.date >= startDate /\ tx.date <= now
               /\ idx >= 0 /\ idx < Periods(range)
            THEN IF tx.type = "income"
                   THEN [pd EXCEPT ![idx + 1].income = @ + tx.amount]
                   ELSE [pd EXCEPT ![idx + 1].expense = @ + tx.amount]
            ELSE pd
    IN  ProcessTransactions(txs, k + 1, next, startDate, now, range)

\* the chart effect (lines 43-208): nothing is built for an empty list
ChartEffect(txs, now, range) ==
  IF Len(txs) = 0 THEN <<>>
  ELSE ProcessTransactions(txs, 1, EmptyPeriods(range), StartDate(now, range), now, range)

\* values of `new Date()` when the effect runs: 31 March (a day the start
\* month does not have) and 15 January, year 10
NowValues == {MakeTime(10, 2, 31, 1), MakeTime(10, 0, 15, 0)}

MaxTransactions == 2

\* transaction dates around the window edges of the first clock value
RefNow == MakeTime(10, 2, 31, 1)
TransactionDates ==
  {RefNow + 1, RefNow, RefNow - 1,
   RefNow - 30 * TicksPerDay, RefNow - 56 * TicksPerDay - 1,
   MakeTime(9, 4, 1, 0), MakeTime(9, 3, 30, 1), MakeTime(6, 0, 1, 1),
   MakeTime(5, 11, 31, 1), MakeTime(10, 0, 15, 0)}

ChartTransactions ==
  [date : TransactionDates, type : {"income", "expense"}, amount : {100}]

ChartInit ==
  /\ transactions = <<>>
  /\ localTimeRange = "weekly"
  /\ chartNow \in NowValues
  /\ periodData = <<>>

ChartIdle ==
  /\ transactions = <<>>
  /\ localTimeRange = "weekly"
  /\ chartNow = RefNow
  /\ periodData = <<>>

\* the transactions prop grows by one record; the effect re-runs (line 317)
ReceiveTransaction(tx, now) ==
  /\ Len(transactions) < MaxTransactions
  /\ now >= chartNow
  /\ transactions' = Append(transactions, tx)
  /\ chartNow' = now
  /\ periodData' = ChartEffect(transactions', now, localTimeRange)
  /\ UNCHANGED localTimeRange
  /\ UNCHANGED otherThanChart

\* a time-range button (lines 405-440); the effect re-runs (line 317)
setLocalTimeRange(range, now) ==
  /\ range # localTimeRange
  /\ now >= chartNow
  /\ localTimeRange' = range
  /\ chartNow' = IF Len(transactions) = 0 THEN chartNow ELSE now
  /\ periodData' = ChartEffect(transactions, now, range)
  /\ UNCHANGED transactions
  /\ UNCHANGED otherThanChart

ChartNext ==
  \/ \E tx \in ChartTransactions, now \in NowValues : ReceiveTransaction(tx, now)
  \/ \E range \in TimeRanges, now \in NowValues : setLocalTimeRange(range, now)

(***************************************************************************)
(* Exact arithmetic: a number is a fraction [n, d] in lowest terms, d > 0. *)
(* Floating-point rounding is not modelled.                                *)
(***************************************************************************)
Abs(x) == IF x < 0 THEN -x ELSE x
Min(a, b) == IF a < b THEN a ELSE b

RECURSIVE GCD(_, _)
GCD(a, b) == IF b = 0 THEN a ELSE GCD(b, a % b)

Rat(n, d) ==
  LET g == GCD(Abs(n), d)
  IN  IF n = 0 THEN [n |-> 0, d |-> 1] ELSE [n |-> n \div g, d |-> d \div g]

RInt(k) == [n |-> k, d |-> 1]
RAdd(a, b) ==
  LET l == (a.d \div GCD(a.d, b.d)) * b.d
  IN  Rat(a.n * (l \div a.d) + b.n * (l \div b.d), l)
RNeg(a) == [n |-> -a.n, d |-> a.d]
RSub(a, b) == RAdd(a, RNeg(b))
RMul(a, b) ==
  LET g1 == IF a.n = 0 THEN b.d ELSE GCD(Abs(a.n), b.d)
      g2 == IF b.n = 0 THEN a.d ELSE GCD(Abs(b.n), a.d)
  IN  Rat((a.n \div g1) * (b.n \div g2), (a.d \div g2) * (b.d \div g1))
RDivInt(a, k) == RMul(a, [n |-> 1, d |-> k])
RAbs(a) == [n |-> Abs(a.n), d |-> a.d]
RLt(a, b) == RSub(a, b).n < 0
RGt(a, b) == RLt(b, a)

(***************************************************************************)
(* calculateProjectionMetrics: src/unnamed/part_004, lines 139-204         *)
(***************************************************************************)
\* data.reduce((sum, item) => sum + parseFloat(item.<field> || '0'), 0)
RECURSIVE SumField(_, _, _)
SumField(data, k, field) ==
  IF k > Len(data) THEN RInt(0)
  ELSE RAdd(data[k][field], SumField(data, k + 1, field))

\* avgIncome and avgExpenses (lines 153-171); an item whose projectedIncome is
\* undefined has hasIncome = FALSE
HistoricalAverages(data) ==
  IF data[1].hasIncome
    THEN [avgIncome |-> RDivInt(SumField(data, 1, "projectedIncome"), Len(data)),
          avgExpenses |-> RDivInt(SumField(data, 1, "projectedExpenses"), Len(data))]
    ELSE LET avgNetFlow == RDivInt(SumField(data, 1, "netFlow"), Len(data))
             hi == RMul(RAbs(avgNetFlow), Rat(17, 10))
             lo == RMul(RAbs(avgNetFlow), Rat(7, 10))
         IN  IF avgNetFlow.n < 0
               THEN [avgIncome |-> lo, avgExpenses |-> hi]
               ELSE [avgIncome |-> hi, avgExpenses |-> lo]

ZeroMetrics ==
  [totalProjectedIncome |-> RInt(0), totalProjectedExpenses |-> RInt(0),
   netProjectedFlow |-> RInt(0), worstCaseScenario |-> RInt(0),
   bestCaseScenario |-> RInt(0), averageMonthlyFlow |-> RInt(0),
   breakEvenPoint |-> RInt(0), riskLevel |-> "medium"]

\* x / y for y > 0
RDiv(x, y) == RMul(x, [n |-> y.d, d |-> y.n])

\* projectedIncome (line 176)
ProjectedIncome(avgIncome, sc) ==
  RMul(RMul(avgIncome, RAdd(RInt(1), Rat(sc.incomeGrowth, 100))),
       RAdd(RInt(1), Rat(sc.marketGrowth, 100)))

\* mutant: the annual inflation rate is applied to every period
ProjectedExpensesAnnualInflation(avgExpenses, sc) ==
  RMul(RMul(avgExpenses, RSub(RInt(1), Rat(sc.expenseReduction, 100))),
       RAdd(RInt(1), RDivInt(sc.inflationRate, 100)))

\* projectedExpenses (line 177)
ProjectedExpenses(avgExpenses, sc) ==
  RMul(RMul(avgExpenses, RSub(RInt(1), Rat(sc.expenseReduction, 100))),
       RAdd(RInt(1), RDivInt(RDivInt(sc.inflationRate, 100), 12)))

\* mutant: a worst case of exactly 0 counts as negative
RiskLevelInclusive(worstCase, netProjectedFlow, avgIncome) ==
  IF worstCase.n <= 0 /\ RLt(netProjectedFlow, RMul(avgIncome, RInt(2)))
    THEN "high"
    ELSE IF RGt(netProjectedFlow, RMul(avgIncome, RInt(6)))
           THEN "low"
           ELSE "medium"

\* riskLevel (lines 189-192)
RiskLevel(worstCase, netProjectedFlow, avgIncome) ==
  IF worstCase.n < 0 /\ RLt(netProjectedFlow, RMul(avgIncome, RInt(2)))
    THEN "high"
    ELSE IF RGt(netProjectedFlow, RMul(avgIncome, RInt(6)))
           THEN "low"
           ELSE "medium"

\* mutant: the variance keeps the sign of the monthly net flow
VarianceSigned(monthlyNetFlow) == RMul(monthlyNetFlow, Rat(2, 10))

\* variance (line 185)
Variance(monthlyNetFlow) == RAbs(RMul(monthlyNetFlow, Rat(2, 10)))

\* calculateProjectionMetrics (lines 139-204)
calculateProjectionMetrics(data, sc, months) ==
  IF Len(data) = 0 THEN ZeroMetrics
  ELSE
    LET avg == HistoricalAverages(data)
        projectedIncome == ProjectedIncome(avg.avgIncome, sc)
        projectedExpenses == ProjectedExpenses(avg.avgExpenses, sc)
        monthlyNetFlow == RSub(projectedIncome, projectedExpenses)
        totalProjectedIncome ==
          RAdd(RMul(projectedIncome, RInt(months)), RInt(sc.oneTimeIncome))
        totalProjectedExpenses ==
          RAdd(RMul(projectedExpenses, RInt(months)), RInt(sc.oneTimeExpense))
        netProjectedFlow == RSub(totalProjectedIncome, totalProjectedExpenses)
        variance == Variance(monthlyNetFlow)
        worstCase == RSub(netProjectedFlow, RMul(variance, RInt(months)))
        bestCase == RAdd(netProjectedFlow, RMul(variance, RInt(months)))
    IN  [totalProjectedIncome |-> totalProjectedIncome,
         totalProjectedExpenses |-> totalProjectedExpenses,
         netProjectedFlow |-> netProjectedFlow,
         worstCaseScenario |-> worstCase,
         bestCaseScenario |-> bestCase,
         averageMonthlyFlow |-> monthlyNetFlow,
         breakEvenPoint |-> IF projectedExpenses.n > 0
                              THEN RDiv(projectedIncome, projectedExpenses)
                              ELSE RInt(0),
         riskLevel |-> RiskLevel(worstCase, netProjectedFlow, avg.avgIncome)]

\* the projection periods of the period selector (lines 211, 504)
ProjectionPeriods == {3, 6, 12, 24}

\* one item of a projection series; the strings of the source are numbers here
\* (Number -> toString -> parseFloat gives the number back)
Item(income, expenses) ==
  [hasIncome |-> TRUE, projectedIncome |-> RInt(income),
   projectedExpenses |-> RInt(expenses), netFlow |-> RInt(income - expenses)]

\* an item that only carries netFlow (the fallback branch, lines 161-171)
NetOnlyItem(net) ==
  [hasIncome |-> FALSE, projectedIncome |-> RInt(0),
   projectedExpenses |-> RInt(0), netFlow |-> RInt(net)]

MetricsItems ==
  {Item(1000, 0), Item(1000, 400), Item(400, 1000),
   NetOnlyItem(600), NetOnlyItem(-600)}

MaxSeriesLen == 2

MetricsSeries == UNION {[1..k -> MetricsItems] : k \in 0..MaxSeriesLen}

\* getArgentinaInflationRate('current') (lines 54-63)
CurrentInflationRate == Rat(366, 10)

\* scenario parameters the metrics are evaluated on
MetricsScenarios ==
  [incomeGrowth : {0, 25}, expenseReduction : {0, 15}, marketGrowth : {0, 10},
   inflationRate : {RInt(0), CurrentInflationRate},
   oneTimeIncome : {0, 5000}, oneTimeExpense : {0, 9600}]

\* resetToBase / the initial scenario (lines 215-224, 302-313)
BaseScenario ==
  [incomeGrowth |-> 0, expenseReduction |-> 0, marketGrowth |-> 0,
   inflationRate |-> CurrentInflationRate, oneTimeIncome |-> 0, oneTimeExpense |-> 0]

ProjIdle ==
  /\ storedData = <<>>
  /\ projTransactions = <<>>
  /\ scenario = BaseScenario
  /\ projectionPeriod = 6
  /\ effectiveData = <<>>
  /\ projectionMetrics = ZeroMetrics
  /\ projEvaluated = FALSE

\* calculateProjectionMetrics as a function of its three arguments
MetricsInit ==
  /\ storedData = <<>>
  /\ projTransactions = <<>>
  /\ effectiveData \in MetricsSeries
  /\ scenario \in MetricsScenarios
  /\ projectionPeriod \in ProjectionPeriods
  /\ projectionMetrics = ZeroMetrics
  /\ projEvaluated = FALSE

Evaluate ==
  /\ ~projEvaluated
  /\ projectionMetrics' = calculateProjectionMetrics(effectiveData, scenario, projectionPeriod)
  /\ projEvaluated' = TRUE
  /\ UNCHANGED <<storedData, projTransactions, scenario, projectionPeriod, effectiveData>>
  /\ UNCHANGED otherThanProj

EvalScenario(sc) ==
  /\ projEvaluated
  /\ sc # scenario
  /\ \E f \in DOMAIN sc : \A g \in DOMAIN sc \ {f} : sc[g] = scenario[g]
  /\ scenario' = sc
  /\ projectionMetrics' = calculateProjectionMetrics(effectiveData, sc, projectionPeriod)
  /\ UNCHANGED <<storedData, projTransactions, projectionPeriod, effectiveData, projEvaluated>>
  /\ UNCHANGED otherThanProj

EvalMonths(months) ==
  /\ projEvaluated
  /\ months # projectionPeriod
  /\ projectionPeriod' = months
  /\ projectionMetrics' = calculateProjectionMetrics(effectiveData, scenario, months)
  /\ UNCHANGED <<storedData, projTransactions, scenario, effectiveData, projEvaluated>>
  /\ UNCHANGED otherThanProj

MetricsNext ==
  \/ Evaluate
  \/ \E sc \in MetricsScenarios : EvalScenario(sc)
  \/ \E months \in ProjectionPeriods : EvalMonths(months)

(***************************************************************************)
(* generateProjectionsFromTransactions and the InteractiveProjections      *)
(* render: src/unnamed/part_004, lines 66-136 and 206-313                  *)
(***************************************************************************)
\* draws of growthFactor = 1 + (Math.random() - 0.5) * 0.1 for the six future
\* months (line 121); each lies in [0.95, 1.05)
GrowthFactors ==
  {[i \in 1..6 |-> RInt(1)],
   [i \in 1..6 |-> Rat(19, 20)],
   [i \in 1..6 |-> IF i <= 3 THEN Rat(19, 20) ELSE RInt(1)]}

\* number of future months appended (line 117)
FutureMonths == 6

\* the month keys of the transactions, ascending (lines 72-96)
RECURSIVE SortedSeq(_)
SortedSeq(S) ==
  IF S = {} THEN <<>>
  ELSE LET lo == CHOOSE x \in S : \A y \in S : x <= y
       IN  <<lo>> \o SortedSeq(S \ {lo})

\* income or expenses accumulated for one month key (lines 84-91)
RECURSIVE MonthTotal(_, _, _, _)
MonthTotal(txs, k, month, type) ==
  IF k > Len(txs) THEN 0
  ELSE (IF txs[k].month = month /\ txs[k].type = type THEN Abs(txs[k].amount) ELSE 0)
       + MonthTotal(txs, k + 1, month, type)

generateProjectionsFromTransactions(txs, factors) ==
  IF Len(txs) = 0 THEN <<>>
  ELSE
    LET sortedMonths == SortedSeq({txs[k].month : k \in 1..Len(txs)})
        historical ==
          [i \in 1..Len(sortedMonths) |->
             Item(MonthTotal(txs, 1, sortedMonths[i], "income"),
                  MonthTotal(txs, 1, sortedMonths[i], "expense"))]
        avgIncome == RDivInt(SumField(historical, 1, "projectedIncome"), Len(historical))
        avgExpenses == RDivInt(SumField(historical, 1, "projectedExpenses"), Len(historical))
        future ==
          [i \in 1..FutureMonths |->
             LET futureIncome == RMul(avgIncome, factors[i])
                 futureExpenses == RMul(avgExpenses, factors[i])
             IN  [hasIncome |-> TRUE, projectedIncome |-> futureIncome,
                  projectedExpenses |-> futureExpenses,
                  netFlow |-> RSub(futureIncome, futureExpenses)]]
    IN  historical \o future

\* effectiveData (line 228)
EffectiveData(data, txs, factors) ==
  IF Len(data) > 0 THEN data ELSE generateProjectionsFromTransactions(txs, factors)

\* predefinedScenarios (lines 233-284): "Optimista" and "Conservador"; the
\* other three presets differ only in their numbers, whose one-time amounts
\* (75000 to 200000) exceed the range of the exact arithmetic used here
PredefinedScenarios ==
  {[incomeGrowth |-> 25, expenseReduction |-> 15, marketGrowth |-> 10,
    inflationRate |-> RInt(25), oneTimeIncome |-> 0, oneTimeExpense |-> 0],
   [incomeGrowth |-> 8, expenseReduction |-> 5, marketGrowth |-> 3,
    inflationRate |-> CurrentInflationRate, oneTimeIncome |-> 0, oneTimeExpense |-> 0]}

MaxProjTransactions == 2

\* transactions the page may hold: [month, type, amount]
ProjTransactionValues ==
  {[month |-> 1, type |-> "income", amount |-> 1000],
   [month |-> 1, type |-> "expense", amount |-> 400],
   [month |-> 2, type |-> "income", amount |-> 500]}

\* stored projections the page may pass as the data prop
StoredSeries == {<<>>, <<Item(1000, 400), Item(500, 0)>>}

\* the first render: no transactions yet (the query is loading)
ProjInit ==
  /\ storedData \in StoredSeries
  /\ projTransactions = <<>>
  /\ scenario = BaseScenario
  /\ projectionPeriod = 6
  /\ effectiveData = EffectiveData(storedData, <<>>, <<>>)
  /\ projectionMetrics = calculateProjectionMetrics(effectiveData, scenario, projectionPeriod)
  /\ projEvaluated = TRUE

\* one render of InteractiveProjections (lines 227-231); every render draws
\* fresh growth factors
Render(data, txs, sc, months, factors) ==
  /\ effectiveData' = EffectiveData(data, txs, factors)
  /\ projectionMetrics' = calculateProjectionMetrics(effectiveData', sc, months)
  /\ projEvaluated' = TRUE
  /\ UNCHANGED otherThanProj

\* the transactions query delivers one more transaction
ReceiveProjTransaction(tx, factors) ==
  /\ Len(projTransactions) < MaxProjTransactions
  /\ projTransactions' = Append(projTransactions, tx)
  /\ UNCHANGED <<storedData, scenario, projectionPeriod>>
  /\ Render(storedData, projTransactions', scenario, projectionPeriod, factors)

\* applyScenario (lines 286-300)
applyScenario(selectedScenario, factors) ==
  /\ scenario' = selectedScenario
  /\ UNCHANGED <<storedData, projTransactions, projectionPeriod>>
  /\ Render(storedData, projTransactions, selectedScenario, projectionPeriod, factors)

\* resetToBase (lines 302-313)
resetToBase(factors) ==
  /\ scenario' = BaseScenario
  /\ UNCHANGED <<storedData, projTransactions, projectionPeriod>>
  /\ Render(storedData, projTransactions, BaseScenario, projectionPeriod, factors)

\* the period selector (line 504)
setProjectionPeriod(value, factors) ==
  /\ projectionPeriod' = value
  /\ UNCHANGED <<storedData, projTransactions, scenario>>
  /\ Render(storedData, projTransactions, scenario, value, factors)

ProjNext ==
  \/ \E tx \in ProjTransactionValues, f \in GrowthFactors :
       ReceiveProjTransaction(tx, f)
  \/ \E sc \in PredefinedScenarios, f \in GrowthFactors :
       applyScenario(sc, f)
  \/ \E f \in GrowthFactors : resetToBase(f)
  \/ \E v \in ProjectionPeriods, f \in GrowthFactors :
       setProjectionPeriod(v, f)

(***************************************************************************)
(* The REST routes that carry :userId: src/server/routes.ts, lines 134-204,*)
(* 233-286 and 315-359; the middleware: src/unnamed/part_011, lines 37-66  *)
(***************************************************************************)
ServerUsers == {"u1", "u2"}

\* the bearer token of a request: absent, not verifiable (garbage, wrong
\* signature or expired), or a token issued to a user
NoToken == "none"
Tokens == {NoToken, "invalid"} \cup ServerUsers

\* verifyToken (part_011, lines 23-29): the payload's userId, or null
verifyToken(token) == IF token \in ServerUsers THEN token ELSE NULL

\* authenticateToken (part_011, lines 37-52)
authenticateToken(token) ==
  IF token = NoToken THEN [status |-> 401, userId |-> NULL]
  ELSE IF verifyToken(token) = NULL THEN [status |-> 403, userId |-> NULL]
  ELSE [status |-> 0, userId |-> verifyToken(token)]

\* optionalAuth (part_011, lines 54-66): never rejects
optionalAuth(token) ==
  [status |-> 0,
   userId |-> IF token # NoToken THEN verifyToken(token) ELSE NULL]

\* the routes: middleware and whether the handler compares req.userId with
\* the :userId of the path
Routes ==
  {[resource |-> "dashboard", method |-> "GET", auth |-> "optionalAuth", ownerCheck |-> FALSE],
   [resource |-> "transactions", method |-> "GET", auth |-> "optionalAuth", ownerCheck |-> FALSE],
   [resource |-> "transactions", method |-> "POST", auth |-> "authenticateToken", ownerCheck |-> FALSE],
   [resource |-> "ai-insights", method |-> "GET", auth |-> "optionalAuth", ownerCheck |-> FALSE],
   [resource |-> "ai-insights", method |-> "POST", auth |-> "authenticateToken", ownerCheck |-> FALSE],
   [resource |-> "cash-flow-projections", method |-> "GET", auth |-> "optionalAuth", ownerCheck |-> FALSE],
   [resource |-> "cash-flow-projections", method |-> "POST", auth |-> "authenticateToken", ownerCheck |-> FALSE],
   [resource |-> "notifications", method |-> "GET", auth |-> "authenticateToken", ownerCheck |-> TRUE],
   [resource |-> "notifications", method |-> "POST", auth |-> "authenticateToken", ownerCheck |-> TRUE]}

\* the answer: status, and whether the handler read or wrote :userId's rows
Answer(status, read, wrote) == [status |-> status, read |-> read, wrote |-> wrote]

\* a route handler after its middleware let the request through
Handler(route, userId, reqUserId, bodyValid, storageOk) ==
  IF route.ownerCheck /\ reqUserId # userId THEN Answer(403, FALSE, FALSE)
  ELSE IF route.method = "GET"
    THEN IF storageOk THEN Answer(200, TRUE, FALSE) ELSE Answer(500, FALSE, FALSE)
    ELSE IF ~bodyValid THEN Answer(400, FALSE, FALSE)
    ELSE IF storageOk THEN Answer(201, FALSE, TRUE)
    ELSE Answer(500, FALSE, FALSE)

\* middleware, then handler
Serve(route, userId, token, bodyValid, storageOk) ==
  LET auth == IF route.auth = "authenticateToken"
                THEN authenticateToken(token) ELSE optionalAuth(token)
  IN  IF auth.status # 0 THEN Answer(auth.status, FALSE, FALSE)
      ELSE Handler(route, userId, auth.userId, bodyValid, storageOk)

MaxRecords == 2

NoRequest == [route |-> "none"]

ServerIdle ==
  /\ records = [u \in ServerUsers |-> 0]
  /\ request = NoRequest
  /\ response = Answer(0, FALSE, FALSE)

HandleRequest(route, userId, token, bodyValid, storageOk) ==
  LET answer == Serve(route, userId, token, bodyValid, storageOk)
  IN  /\ answer.wrote => records[userId] < MaxRecords
      /\ request' = [route |-> route, userId |-> userId, token |-> token]
      /\ response' = answer
      /\ records' = IF answer.wrote
                      THEN [records EXCEPT ![userId] = @ + 1]
                      ELSE records
      /\ UNCHANGED otherThanServer

ServerNext ==
  \E route \in Routes, userId \in ServerUsers, token \in Tokens,
     bodyValid \in BOOLEAN, storageOk \in BOOLEAN :
    HandleRequest(route, userId, token, bodyValid, storageOk)

(***************************************************************************)
(* formatAmount and convertAmount: currency-context.tsx, lines 124-169     *)
(*                                                                         *)
(* A JavaScript number is an exact rational [n, d] with d > 0, or NaN.     *)
(* A string is a sequence of one-character strings.                        *)
(***************************************************************************)
NaN == [n |-> 0, d |-> 0]
isNaN(x) == x.d = 0

Digits == {"0", "1", "2", "3", "4", "5", "6", "7", "8", "9"}
DigitValue(c) ==
  CASE c = "0" -> 0 [] c = "1" -> 1 [] c = "2" -> 2 [] c = "3" -> 3 [] c = "4" -> 4
    [] c = "5" -> 5 [] c = "6" -> 6 [] c = "7" -> 7 [] c = "8" -> 8 [] c = "9" -> 9

\* index of the first character at or after i that is not white space
RECURSIVE SkipSpaces(_, _)
SkipSpaces(str, i) ==
  IF i <= Len(str) /\ str[i] = " " THEN SkipSpaces(str, i + 1) ELSE i

\* index after the run of decimal digits that starts at i
RECURSIVE DigitsEnd(_, _)
DigitsEnd(str, i) ==
  IF i <= Len(str) /\ str[i] \in Digits THEN DigitsEnd(str, i + 1) ELSE i

\* value of the digits str[i..j-1], continuing from acc
RECURSIVE DigitsValue(_, _, _, _)
DigitsValue(str, i, j, acc) ==
  IF i >= j THEN acc ELSE DigitsValue(str, i + 1, j, acc * 10 + DigitValue(str[i]))

RECURSIVE Pow10(_)
Pow10(k) == IF k = 0 THEN 1 ELSE 10 * Pow10(k - 1)

\* parseFloat: leading white space, an optional sign, digits with an optional
\* fraction; what follows is ignored; NaN when no digit was read
parseFloat(str) ==
  LET i == SkipSpaces(str, 1)
      signed == i <= Len(str) /\ str[i] \in {"+", "-"}
      negative == signed /\ str[i] = "-"
      j == IF signed THEN i + 1 ELSE i
      k == DigitsEnd(str, j)
      hasDot == k <= Len(str) /\ str[k] = "."
      m == IF hasDot THEN DigitsEnd(str, k + 1) ELSE k
      fractionDigits == IF hasDot THEN m - (k + 1) ELSE 0
      mantissa == DigitsValue(str, k + 1, m, DigitsValue(str, j, k, 0))
  IN  IF (k - j) + fractionDigits = 0 THEN NaN
      ELSE Rat(IF negative THEN -mantissa ELSE mantissa, Pow10(fractionDigits))

\* an `amount` argument: a string or a number
StringAmount(chars) == [type |-> "string", chars |-> chars, value |-> NaN]
NumberAmount(value) == [type |-> "number", chars |-> <<>>, value |-> value]

\* typeof amount === 'string' ? parseFloat(amount) : amount (lines 125, 152)
NumericAmount(amount) ==
  IF amount.type = "string" THEN parseFloat(amount.chars) ELSE amount.value

\* numericAmount / exchangeRate for a non-zero integer rate (line 159)
DivByRate(x, rate) ==
  IF rate > 0 THEN RMul(x, [n |-> 1, d |-> rate]) ELSE RMul(x, [n |-> -1, d |-> -rate])

\* mutant: the conversion back to ARS divides as well
MulByRateDividing(x, rate) ==
  IF rate > 0 THEN RMul(x, [n |-> 1, d |-> rate]) ELSE RMul(x, [n |-> -1, d |-> -rate])

\* numericAmount * exchangeRate (line 164)
MulByRate(x, rate) == RMul(x, RInt(rate))

\* mutant: the same-currency shortcut is missing and every pair towards USD
\* divides
convertAmountNoIdentity(amount, fromCurrency, toCurrency, rate) ==
  LET numericAmount == NumericAmount(amount)
  IN  IF isNaN(numericAmount) \/ rate = 0 THEN RInt(0)
      ELSE IF toCurrency = "USD" THEN DivByRate(numericAmount, rate)
      ELSE IF fromCurrency = "USD" /\ toCurrency = "ARS" THEN MulByRate(numericAmount, rate)
      ELSE numericAmount

\* convertAmount (lines 147-169); rate is the exchangeRate of the render
convertAmount(amount, fromCurrency, toCurrency, rate) ==
  LET numericAmount == NumericAmount(amount)
  IN  IF isNaN(numericAmount) \/ rate = 0 THEN RInt(0)
      ELSE IF fromCurrency = toCurrency THEN numericAmount
      ELSE IF fromCurrency = "ARS" /\ toCurrency = "USD" THEN DivByRate(numericAmount, rate)
      ELSE IF fromCurrency = "USD" /\ toCurrency = "ARS" THEN MulByRate(numericAmount, rate)
      ELSE numericAmount

\* Intl.NumberFormat(...).format(x) for x >= 0 with a fixed number of fraction
\* digits: x rounded half up, in units of 10^-fractionDigits
RoundScaled(x, fractionDigits) ==
  (2 * x.n * Pow10(fractionDigits) + x.d) \div (2 * x.d)

\* the pieces of a returned string: "$" and the currency code when the
\* symbol is shown, and the number in units of 10^-fractionDigits
Text(showSymbol, scaled, fractionDigits, code, nan) ==
  [showSymbol |-> showSymbol, scaled |-> scaled, fractionDigits |-> fractionDigits,
   code |-> code, nan |-> nan]

\* the string '0'
ZeroText == Text(FALSE, 0, 0, "", FALSE)

\* mutant: the NaN guard is missing and NaN is formatted as "NaN"
formatAmountNoGuard(amount, showSymbol, cur, rate) ==
  LET parsed == NumericAmount(amount)
      numericAmount == IF cur = "USD" /\ rate # 0 /\ ~isNaN(parsed)
                         THEN DivByRate(parsed, rate) ELSE parsed
      fractionDigits == IF cur = "USD" THEN 2 ELSE 0
      code == IF ~showSymbol THEN "" ELSE IF cur = "USD" THEN "USD" ELSE "ARS"
  IN  IF isNaN(parsed) THEN Text(showSymbol, 0, fractionDigits, code, TRUE)
      ELSE Text(showSymbol, RoundScaled(RAbs(numericAmount), fractionDigits),
                fractionDigits, code, FALSE)

\* formatAmount (lines 124-145)
formatAmount(amount, showSymbol, cur, rate) ==
  LET parsed == NumericAmount(amount)
      numericAmount == IF cur = "USD" /\ rate # 0 /\ ~isNaN(parsed)
                         THEN DivByRate(parsed, rate) ELSE parsed
      fractionDigits == IF cur = "USD" THEN 2 ELSE 0
      code == IF ~showSymbol THEN "" ELSE IF cur = "USD" THEN "USD" ELSE "ARS"
  IN  IF isNaN(parsed) THEN ZeroText
      ELSE Text(showSymbol, RoundScaled(RAbs(numericAmount), fractionDigits),
                fractionDigits, code, FALSE)

\* no call has been made
NoCall == [fn |-> "none"]
NoResult == [fn |-> "none"]

UseIdle ==
  /\ call = NoCall
  /\ result = NoResult

\* amounts handed to formatAmount / convertAmount
AmountStrings ==
  {<<>>, <<"a", "b", "c">>, <<"-">>, <<".">>, <<"1", "2", "a">>,
   <<" ", "-", "2", "5", "4", "0">>, <<"1", "2", "7", ".", "5">>}
AmountNumbers == {RInt(0), RInt(1270), RInt(-3000), Rat(1, 2), NaN}
Amounts ==
  {StringAmount(chars) : chars \in AmountStrings}
    \cup {NumberAmount(value) : value \in AmountNumbers}

\* currencies a caller may pass; "EUR" reaches the functions through the
\* unchecked cast of a stored preference
CallCurrencies == {"ARS", "USD", "EUR"}

\* a component calls convertAmount during a render
CallConvert(amount, fromCurrency, toCurrency) ==
  /\ phase = "mounted"
  /\ call' = [fn |-> "convertAmount", amount |-> amount,
              from |-> fromCurrency, to |-> toCurrency]
  /\ result' = [fn |-> "convertAmount",
                value |-> convertAmount(amount, fromCurrency, toCurrency, exchangeRate)]
  /\ UNCHANGED <<currencyVars, otherThanUse>>

\* a component converts an amount to USD and back during one render
CallRoundTrip(amount) ==
  /\ phase = "mounted"
  /\ ~isNaN(NumericAmount(amount))
  /\ call' = [fn |-> "roundTrip", amount |-> amount]
  /\ result' =
       [fn |-> "roundTrip",
        value |-> convertAmount(
                    NumberAmount(convertAmount(amount, "ARS", "USD", exchangeRate)),
                    "USD", "ARS", exchangeRate)]
  /\ UNCHANGED <<currencyVars, otherThanUse>>

\* a component calls formatAmount during a render
CallFormat(amount, showSymbol) ==
  /\ phase = "mounted"
  /\ call' = [fn |-> "formatAmount", amount |-> amount, showSymbol |-> showSymbol]
  /\ result' = [fn |-> "formatAmount",
                value |-> formatAmount(amount, showSymbol, currency, exchangeRate)]
  /\ UNCHANGED <<currencyVars, otherThanUse>>

(***************************************************************************)
(* Chart value formatting: src/unnamed/part_006 (lib/chart-formatters),    *)
(* and the tick callbacks of the three charts that use it                  *)
(***************************************************************************)
\* stands for -Infinity, the value of Math.max() without arguments: it is
\* below every absolute value
NegInfinity == -1

\* Math.max(...values.map(v => Math.abs(v))) (line 13)
RECURSIVE MaxAbsFrom(_, _, _)
MaxAbsFrom(values, k, acc) ==
  IF k > Len(values) THEN acc
  ELSE MaxAbsFrom(values, k + 1, IF Abs(values[k]) > acc THEN Abs(values[k]) ELSE acc)

\* mutant: the thresholds are exclusive
determineScaleExclusive(values) ==
  LET maxValue == MaxAbsFrom(values, 1, NegInfinity)
  IN  IF maxValue > 1000000 THEN "millions"
      ELSE IF maxValue > 1000 THEN "thousands"
      ELSE "units"

\* determineScale (lines 12-22)
determineScale(values) ==
  LET maxValue == MaxAbsFrom(values, 1, NegInfinity)
  IN  IF maxValue >= 1000000 THEN "millions"
      ELSE IF maxValue >= 1000 THEN "thousands"
      ELSE "units"

\* formatValueWithScale (lines 27-74): the pieces of the returned string,
\* the number in units of 10^-decimals of the scale unit
formatValueWithScale(value, scale, asCurrency, decimals) ==
  LET divisor == CASE scale = "thousands" -> 1000
                   [] scale = "millions" -> 1000000
                   [] OTHER -> 1
      suffix == CASE scale = "thousands" -> "K"
                  [] scale = "millions" -> "M"
                  [] OTHER -> ""
      finalDecimals == IF scale = "units" THEN 0
                       ELSE IF decimals > 1 THEN decimals ELSE 1
  IN  [scaled |-> RoundScaled(Rat(Abs(value), divisor), finalDecimals),
       decimals |-> finalDecimals, suffix |-> suffix,
       currency |-> asCurrency, negative |-> value < 0]

\* the function returned by createChartTickFormatter(allValues, options),
\* applied to a number (lines 96-116); scale is "auto" unless given
ChartTickFormatter(allValues, scale, asCurrency, numValue) ==
  LET effectiveValues == IF Len(allValues) > 0 THEN allValues ELSE <<numValue>>
      effectiveScale == IF scale = "auto" THEN determineScale(effectiveValues) ELSE scale
  IN  formatValueWithScale(numValue, effectiveScale, asCurrency,
                           IF effectiveScale = "units" THEN 0 ELSE 1)

\* the function returned by createTooltipFormatter(allValues), applied to a
\* number (lines 121-134)
TooltipFormatter(allValues, scale, numValue) ==
  LET effectiveScale == IF scale = "auto" THEN determineScale(allValues) ELSE scale
  IN  formatValueWithScale(numValue, effectiveScale, TRUE, 1)

\* the y-axis tick callback of CashFlowChart (cash-flow-chart.tsx, lines 91-95)
CashFlowChartTick(numValue) ==
  ChartTickFormatter(<<numValue>>, "auto", FALSE, numValue)

\* the y-axis tick callback of RealDataChart for a non-zero tick (part_005,
\* lines 235-243)
RealDataChartTick(allChartValues, localAmountScale, numValue) ==
  ChartTickFormatter(allChartValues, localAmountScale, FALSE, numValue)

\* the tick formatter of the transaction trend chart
\* (currency-selector.tsx, lines 471-474)
TrendChartTick(allValues, numValue) ==
  ChartTickFormatter(allValues, "auto", FALSE, numValue)

\* values a series may hold
ScaleValues == {0, 999, -1000, 999999, -1000000}

MaxScaleLen == 3

ScaleSeries == UNION {[1..k -> ScaleValues] : k \in 0..MaxScaleLen}

\* determineScale is applied to a series
CallDetermineScale(values) ==
  /\ call = NoCall
  /\ call' = [fn |-> "determineScale", values |-> values]
  /\ result' = [fn |-> "determineScale", value |-> determineScale(values)]
  /\ UNCHANGED <<currencyVars, otherThanUse>>

\* the series of a chart, and the non-zero ticks Chart.js places on its axis
PlottedSeries == {<<500, 1500>>, <<500, 800>>, <<1500, 2500>>, <<1500, 2000000>>}
TickCandidates == {500, 1000, 1500, 2000, 2500, 1000000, 2000000}
AxisTicks(series) ==
  {v \in TickCandidates : v <= MaxAbsFrom(series, 1, NegInfinity)}

ChartNames == {"CashFlowChart", "RealDataChart", "TrendChart"}
\* the amountScale prop of RealDataChart; the other charts have none ("auto")
AmountScales == {"auto", "units", "thousands", "millions"}

\* one rendering of a chart: every tick of the axis is formatted
RenderTicks(chart, series, localAmountScale) ==
  /\ call = NoCall
  /\ (chart = "RealDataChart") <=> (localAmountScale # "auto")
  /\ call' = [fn |-> "renderTicks", chart |-> chart, series |-> series,
              scale |-> localAmountScale]
  /\ result' =
       [fn |-> "renderTicks",
        labels |->
          [v \in AxisTicks(series) |->
             CASE chart = "CashFlowChart" -> CashFlowChartTick(v)
               [] chart = "RealDataChart" -> RealDataChartTick(series, localAmountScale, v)
               [] chart = "TrendChart" -> TrendChartTick(series, v)]]
  /\ UNCHANGED <<currencyVars, otherThanUse>>

\* one rendering of the trend chart's tooltips, one per plotted value
RenderTooltips(series) ==
  /\ call = NoCall
  /\ call' = [fn |-> "renderTooltips", chart |-> "TrendChart", series |-> series,
              scale |-> "auto"]
  /\ result' =
       [fn |-> "renderTooltips",
        labels |-> [v \in {series[k] : k \in 1..Len(series)} |->
                      TooltipFormatter(series, "auto", v)]]
  /\ UNCHANGED <<currencyVars, otherThanUse>>

ScaleNext ==
  \/ \E values \in ScaleSeries : CallDetermineScale(values)
  \/ \E chart \in ChartNames, series \in PlottedSeries, sc \in AmountScales :
       RenderTicks(chart, series, sc)
  \/ \E series \in PlottedSeries : RenderTooltips(series)

(***************************************************************************)
(* Ratios of the KPI and projection layer: transaction-kpi-cards.tsx lines *)
(* 65-72, src/unnamed/part_003 lines 76-85, src/unnamed/part_004 lines     *)
(* 201, 865 and 889                                                        *)
(***************************************************************************)
\* the results of a division by zero: [n, 0] with n = 0 is NaN, with n = 1
\* or -1 it is Infinity or -Infinity
Infinity == [n |-> 1, d |-> 0]
NegativeInfinity == [n |-> -1, d |-> 0]
isFinite(x) == x.d # 0

\* x / y for finite x and y
JSDivide(x, y) ==
  IF y.n = 0
    THEN IF x.n = 0 THEN NaN ELSE IF x.n > 0 THEN Infinity ELSE NegativeInfinity
    ELSE IF y.n > 0 THEN RMul(x, [n |-> y.d, d |-> y.n])
    ELSE RMul(x, [n |-> -y.d, d |-> -y.n])

\* Math.round(x * 100)
RoundPercent(x) ==
  IF ~isFinite(x) THEN x ELSE RInt((2 * 100 * x.n + x.d) \div (2 * x.d))

\* incomeChange and expenseChange (transaction-kpi-cards.tsx, lines 65-72)
PercentChange(current, previous) ==
  IF RGt(previous, RInt(0))
    THEN RMul(JSDivide(RSub(current, previous), previous), RInt(100))
    ELSE RInt(0)

\* trendRate (part_003, line 83)
TrendRate(recentAverage, olderAverage) ==
  IF olderAverage # RInt(0)
    THEN JSDivide(RSub(recentAverage, olderAverage), olderAverage)
    ELSE RInt(0)

\* the "% sobre base" and "% bajo base" figures of the analysis tab
\* (part_004, lines 865 and 889)
CasePercent(caseScenario, netProjectedFlow) ==
  RoundPercent(JSDivide(RSub(caseScenario, netProjectedFlow), RAbs(netProjectedFlow)))

\* amounts of a month's income or expenses, and averages of weekly net flows
KpiAmounts == {RInt(0), RInt(500), RInt(1000), RInt(1500), RInt(2500)}
WeeklyAverages == {RInt(-1000), RInt(-500), RInt(0), RInt(500), RInt(1000)}

\* projection series the analysis tab may be rendered with
RatioSeries == {<<>>, <<Item(1000, 0)>>, <<Item(1000, 400)>>, <<Item(400, 1000)>>}

\* scenarios of the analysis tab: the base scenario, and a one-time expense
\* that cancels three months of income
RatioScenarios == {BaseScenario, [BaseScenario EXCEPT !.oneTimeExpense = 3000]}

\* TransactionKpiCards renders a month-over-month change
CallPercentChange(kind, current, previous) ==
  /\ call = NoCall
  /\ call' = [fn |-> "percentChange", kind |-> kind, current |-> current,
              previous |-> previous]
  /\ result' = [fn |-> "percentChange", denominator |-> previous,
                values |-> {PercentChange(current, previous)}]
  /\ UNCHANGED <<currencyVars, otherThanUse>>

\* CashFlowMetrics renders the weekly trend
CallTrendRate(recentAverage, olderAverage) ==
  /\ call = NoCall
  /\ call' = [fn |-> "trendRate", recentAverage |-> recentAverage,
              olderAverage |-> olderAverage]
  /\ result' = [fn |-> "trendRate", denominator |-> olderAverage,
                values |-> {TrendRate(recentAverage, olderAverage)}]
  /\ UNCHANGED <<currencyVars, otherThanUse>>

\* InteractiveProjections renders the break-even ratio (part_004, line 898)
CallBreakEven(data, sc, months) ==
  /\ call = NoCall
  /\ call' = [fn |-> "breakEvenPoint", data |-> data, scenario |-> sc, months |-> months]
  /\ result' =
       [fn |-> "breakEvenPoint",
        denominator |-> IF Len(data) = 0 THEN RInt(0)
                        ELSE ProjectedExpenses(HistoricalAverages(data).avgExpenses, sc),
        values |-> {calculateProjectionMetrics(data, sc, months).breakEvenPoint}]
  /\ UNCHANGED <<currencyVars, otherThanUse>>

\* InteractiveProjections renders the analysis tab (part_004, lines 855-893)
CallCasePercents(data, sc, months) ==
  LET m == calculateProjectionMetrics(data, sc, months)
  IN  /\ call = NoCall
      /\ call' = [fn |-> "casePercents", data |-> data, scenario |-> sc, months |-> months]
      /\ result' =
           [fn |-> "casePercents",
            denominator |-> RAbs(m.netProjectedFlow),
            values |-> {CasePercent(m.bestCaseScenario, m.netProjectedFlow),
                        CasePercent(m.worstCaseScenario, m.netProjectedFlow)}]
      /\ UNCHANGED <<currencyVars, otherThanUse>>

RatiosNext ==
  \/ \E kind \in {"income", "expense"}, current \in KpiAmounts, previous \in KpiAmounts :
       CallPercentChange(kind, current, previous)
  \/ \E recent \in WeeklyAverages, older \in WeeklyAverages : CallTrendRate(recent, older)
  \/ \E data \in RatioSeries, sc \in RatioScenarios, months \in ProjectionPeriods :
       CallBreakEven(data, sc, months)
  \/ \E data \in RatioSeries, sc \in RatioScenarios, months \in ProjectionPeriods :
       CallCasePercents(data, sc, months)

(***************************************************************************)
(* SmartInsightsGenerator: report-card.tsx, lines 529-602                  *)
(***************************************************************************)
\* x > y for a JavaScript number x and a finite y
JSGreater(x, y) ==
  IF isFinite(x) THEN RGt(x, y) ELSE x = Infinity

\* the keys of expensesByCategory in insertion order (lines 533-538)
RECURSIVE CategoryOrder(_, _, _)
CategoryOrder(txs, k, acc) ==
  IF k > Len(txs) THEN acc
  ELSE CategoryOrder(txs, k + 1,
         IF txs[k].type = "expense"
              /\ \A i \in 1..Len(acc) : acc[i] # txs[k].categoryId
           THEN Append(acc, txs[k].categoryId) ELSE acc)

\* expensesByCategory[categoryId] (lines 533-538)
RECURSIVE CategoryAmount(_, _, _)
CategoryAmount(txs, k, categoryId) ==
  IF k > Len(txs) THEN 0
  ELSE (IF txs[k].type = "expense" /\ txs[k].categoryId = categoryId
          THEN txs[k].amount ELSE 0)
       + CategoryAmount(txs, k + 1, categoryId)

RECURSIVE SumAmounts(_, _, _)
SumAmounts(txs, order, i) ==
  IF i > Len(order) THEN 0
  ELSE CategoryAmount(txs, 1, order[i]) + SumAmounts(txs, order, i + 1)

PatternInsight(categoryId, priority) ==
  [id |-> <<"pattern", categoryId>>, type |-> "pattern", priority |-> priority]

\* mutant: a share of exactly 30% emits an insight as well
PatternForInclusive(categoryId, amount, totalExpenses) ==
  LET q == JSDivide(RInt(amount), RInt(totalExpenses))
      percentage == IF isFinite(q) THEN RMul(q, RInt(100)) ELSE q
  IN  IF JSGreater(percentage, RInt(30)) \/ percentage = RInt(30)
        THEN <<PatternInsight(categoryId,
                 IF JSGreater(percentage, RInt(50)) THEN "high" ELSE "medium")>>
        ELSE <<>>

\* the callback of the forEach over the categories (lines 542-556)
PatternFor(categoryId, amount, totalExpenses) ==
  LET q == JSDivide(RInt(amount), RInt(totalExpenses))
      percentage == IF isFinite(q) THEN RMul(q, RInt(100)) ELSE q
  IN  IF JSGreater(percentage, RInt(30))
        THEN <<PatternInsight(categoryId,
                 IF JSGreater(percentage, RInt(50)) THEN "high" ELSE "medium")>>
        ELSE <<>>

\* Object.entries(expensesByCategory).forEach(...), from entry i on
RECURSIVE PatternInsights(_, _, _, _)
PatternInsights(txs, order, i, totalExpenses) ==
  IF i > Len(order) THEN <<>>
  ELSE PatternFor(order[i], CategoryAmount(txs, 1, order[i]), totalExpenses)
         \o PatternInsights(txs, order, i + 1, totalExpenses)

\* detectSpendingPatterns (lines 529-560)
detectSpendingPatterns(txs) ==
  LET order == CategoryOrder(txs, 1, <<>>)
  IN  PatternInsights(txs, order, 1, SumAmounts(txs, order, 1))

\* netFlows.slice(-3) (lines 569, 573)
LastThree(netFlows) ==
  IF Len(netFlows) <= 3 THEN netFlows
  ELSE SubSeq(netFlows, Len(netFlows) - 2, Len(netFlows))

TrendAlert == [id |-> <<"trend-decreasing">>, type |-> "alert", priority |-> "high"]
TrendOpportunity ==
  [id |-> <<"trend-increasing">>, type |-> "opportunity", priority |-> "medium"]

\* mutant: the first three buckets are inspected instead of the last three
detectCashFlowTrendsFirstThree(netFlows) ==
  IF Len(netFlows) < 3 THEN <<>>
  ELSE
    LET arr == SubSeq(netFlows, 1, 3)
        isDecreasing == \A index \in 1..Len(arr) : index = 1 \/ arr[index] < arr[index - 1]
        isIncreasing == \A index \in 1..Len(arr) : index = 1 \/ arr[index] > arr[index - 1]
    IN  IF isDecreasing THEN <<TrendAlert>>
        ELSE IF isIncreasing THEN <<TrendOpportunity>>
        ELSE <<>>

\* detectCashFlowTrends (lines 562-602) on the parsed netFlow values
detectCashFlowTrends(netFlows) ==
  IF Len(netFlows) < 3 THEN <<>>
  ELSE
    LET arr == LastThree(netFlows)
        isDecreasing == \A index \in 1..Len(arr) : index = 1 \/ arr[index] < arr[index - 1]
        isIncreasing == \A index \in 1..Len(arr) : index = 1 \/ arr[index] > arr[index - 1]
    IN  IF isDecreasing THEN <<TrendAlert>>
        ELSE IF isIncreasing THEN <<TrendOpportunity>>
        ELSE <<>>

MaxInsightTransactions == 2

\* transactions the generator may be given
InsightTransactions ==
  [type : {"income", "expense"}, categoryId : {"a", "b"}, amount : {0, 300, 500, 700}]

InsightTransactionLists ==
  UNION {[1..k -> InsightTransactions] : k \in 0..MaxInsightTransactions}

MaxTrendLen == 4

NetFlowValues == {-100, 0, 100}

NetFlowSeries == UNION {[1..k -> NetFlowValues] : k \in 0..MaxTrendLen}

CallDetectSpendingPatterns(txs) ==
  /\ call = NoCall
  /\ call' = [fn |-> "detectSpendingPatterns", transactions |-> txs]
  /\ result' = [fn |-> "detectSpendingPatterns", insights |-> detectSpendingPatterns(txs)]
  /\ UNCHANGED <<currencyVars, otherThanUse>>

CallDetectCashFlowTrends(netFlows) ==
  /\ call = NoCall
  /\ call' = [fn |-> "detectCashFlowTrends", netFlows |-> netFlows]
  /\ result' = [fn |-> "detectCashFlowTrends", insights |-> detectCashFlowTrends(netFlows)]
  /\ UNCHANGED <<currencyVars, otherThanUse>>

InsightsNext ==
  \/ \E txs \in InsightTransactionLists : CallDetectSpendingPatterns(txs)
  \/ \E netFlows \in NetFlowSeries : CallDetectCashFlowTrends(netFlows)

(***************************************************************************)
(* The insights tab of the Cash Flow page: the projections as the server   *)
(* returns them (src/server/storage.ts, lines 287-294), handed over by the *)
(* page (src/client/src/pages/cash-flow.tsx, lines 172 and 255-263) to     *)
(* generateInsights (report-card.tsx, lines 604-663)                       *)
(***************************************************************************)
\* the default of the limit parameter (storage.ts, line 287)
DefaultLimit == 30

\* getUserCashFlowProjections (storage.ts, lines 287-294): the user's rows,
\* latest date first, at most `limit` of them; rows maps a date to the
\* netFlow of the projection of that date
getUserCashFlowProjections(rows, limit) ==
  LET ascending == SortedSeq(DOMAIN rows)
      n == Len(ascending)
      descending == [i \in 1..n |-> ascending[n + 1 - i]]
  IN  [i \in 1..Min(n, limit) |->
         [date |-> descending[i], netFlow |-> rows[descending[i]]]]

RecommendationInsight ==
  [id |-> <<"recommendation-expense-review">>, type |-> "recommendation",
   priority |-> "medium"]

\* sum of the expense amounts of the transactions of the last 30 days
RECURSIVE RecentExpenses(_, _)
RecentExpenses(txs, k) ==
  IF k > Len(txs) THEN 0
  ELSE (IF txs[k].recent /\ txs[k].type = "expense" THEN txs[k].amount ELSE 0)
         + RecentExpenses(txs, k + 1)

\* generateOptimizationRecommendations (lines 604-636); `recent` says that
\* the date of a transaction is within the last 30 days
generateOptimizationRecommendations(txs) ==
  IF /\ \E k \in 1..Len(txs) : txs[k].recent
     /\ RecentExpenses(txs, 1) > 5000 * 30
    THEN <<RecommendationInsight>>
    ELSE <<>>

\* allInsights of generateInsights (lines 638-663)
generateInsights(txs, cashFlowData) ==
  detectSpendingPatterns(txs)
    \o detectCashFlowTrends([i \in 1..Len(cashFlowData) |-> cashFlowData[i].netFlow])
    \o generateOptimizationRecommendations(txs)

MaxPageTransactions == 3

\* transactions of the page; the amount is any decimal the schema accepts
\* (shared/schema.ts, lines 30 and 171)
PageTransactions ==
  {[type |-> "expense", categoryId |-> "a", amount |-> 500, recent |-> TRUE],
   [type |-> "expense", categoryId |-> "b", amount |-> 500, recent |-> TRUE],
   [type |-> "expense", categoryId |-> "c", amount |-> -300, recent |-> TRUE],
   [type |-> "expense", categoryId |-> "c", amount |-> 200000, recent |-> TRUE],
   [type |-> "income", categoryId |-> "a", amount |-> 500, recent |-> FALSE]}

PageTransactionLists ==
  UNION {[1..k -> PageTransactions] : k \in 0..MaxPageTransactions}

MaxProjectionDate == 3

\* the stored projections of the user: at most one per date
ProjectionRows ==
  UNION {[dates -> {0, 100, 200}] : dates \in SUBSET (1..MaxProjectionDate)}

\* the insights tab is opened and the generator runs once
OpenInsightsTab(txs, rows) ==
  LET dataArray == getUserCashFlowProjections(rows, DefaultLimit)
  IN  /\ call = NoCall
      /\ call' = [fn |-> "generateInsights", transactions |-> txs,
                  rows |-> rows, cashFlowData |-> dataArray]
      /\ result' = [fn |-> "generateInsights",
                    insights |-> generateInsights(txs, dataArray)]
      /\ UNCHANGED <<currencyVars, otherThanUse>>

PageNext ==
  /\ call = NoCall
  /\ \E txs \in PageTransactionLists, rows \in ProjectionRows :
       OpenInsightsTab(txs, rows)

(***************************************************************************)
(* calculateModifiedData: src/unnamed/part_004, lines 331-352              *)
(***************************************************************************)
\* one item of the result (lines 333-350) without the one-time adjustments
ScaledItem(item, sc) ==
  LET modifiedIncome ==
        RMul(item.projectedIncome, RAdd(RInt(1), Rat(sc.incomeGrowth, 100)))
      modifiedExpenses ==
        RMul(item.projectedExpenses, RSub(RInt(1), Rat(sc.expenseReduction, 100)))
  IN  [hasIncome |-> TRUE, projectedIncome |-> modifiedIncome,
       projectedExpenses |-> modifiedExpenses,
       netFlow |-> RSub(modifiedIncome, modifiedExpenses)]

\* one item with the one-time adjustments (lines 341-343)
AdjustedItem(item, sc) ==
  LET scaled == ScaledItem(item, sc)
      finalIncome == RAdd(scaled.projectedIncome, RInt(sc.oneTimeIncome))
      finalExpenses == RAdd(scaled.projectedExpenses, RInt(sc.oneTimeExpense))
  IN  [hasIncome |-> TRUE, projectedIncome |-> finalIncome,
       projectedExpenses |-> finalExpenses,
       netFlow |-> RSub(finalIncome, finalExpenses)]

\* mutant: the one-time adjustments are applied to every period
calculateModifiedDataEveryPeriod(originalData, sc) ==
  [index \in 1..Len(originalData) |-> AdjustedItem(originalData[index], sc)]

\* calculateModifiedData (lines 331-352); index 1 is the source's index 0
calculateModifiedData(originalData, sc) ==
  [index \in 1..Len(originalData) |->
     IF index = 1 THEN AdjustedItem(originalData[index], sc)
     ELSE ScaledItem(originalData[index], sc)]

\* the series the chart effect hands over: not empty (line 356), every item
\* with its projectedIncome and projectedExpenses
ModifiedSeries ==
  {data \in MetricsSeries :
     Len(data) > 0 /\ \A i \in 1..Len(data) : data[i].hasIncome}

\* the chart effect applies the scenario to the series (line 366)
CallCalculateModifiedData(data, sc, months) ==
  /\ call = NoCall
  /\ call' = [fn |-> "calculateModifiedData", originalData |-> data,
              scenario |-> sc, months |-> months]
  /\ result' = [fn |-> "calculateModifiedData",
                value |-> calculateModifiedData(data, sc),
                metrics |-> calculateProjectionMetrics(data, sc, months)]
  /\ UNCHANGED <<currencyVars, otherThanUse>>

ModifiedNext ==
  \E data \in ModifiedSeries, sc \in MetricsScenarios, months \in ProjectionPeriods :
    CallCalculateModifiedData(data, sc, months)

(***************************************************************************)
(* The forecast analysis: src/unnamed/part_002, processTransactionData     *)
(* (lines 56-112) and the 'forecast' case of getChartConfiguration         *)
(* (lines 251-320)                                                         *)
(*                                                                         *)
(* A transaction carries the position of the period its date falls in:     *)
(* 1 is the oldest period of the window, 0 a date outside the window.      *)
(***************************************************************************)
TimeFrames == {"weekly", "monthly", "quarterly"}

\* periods (line 58)
FramePeriods(frame) ==
  IF frame = "weekly" THEN 12 ELSE IF frame = "monthly" THEN 12 ELSE 4

\* forecastPeriods (line 253)
forecastPeriods == 6

\* sum of the amounts of the transactions of one period and type
\* (lines 78-88)
RECURSIVE PeriodSum(_, _, _, _)
PeriodSum(txs, k, period, type) ==
  IF k > Len(txs) THEN 0
  ELSE (IF txs[k].period = period /\ txs[k].type = type THEN txs[k].amount ELSE 0)
         + PeriodSum(txs, k + 1, period, type)

\* processTransactionData (lines 56-112): one bucket per period, oldest first
processTransactionData(txs, frame) ==
  [p \in 1..FramePeriods(frame) |->
     LET income == PeriodSum(txs, 1, p, "income")
         expense == PeriodSum(txs, 1, p, "expense")
     IN  [income |-> income, expense |-> expense, netFlow |-> income - expense]]

\* a point of a dataset: a number or null
Point(value) == [null |-> FALSE, value |-> value]
NullPoint == [null |-> TRUE, value |-> RInt(0)]

\* sum of f[1..k]
RECURSIVE SumTo(_, _)
SumTo(f, k) == IF k = 0 THEN 0 ELSE f[k] + SumTo(f, k - 1)

\* n * sumXX - sumX * sumX (line 266) for x = 0 .. n - 1
RegressionDenominator(n) ==
  LET x == [i \in 1..n |-> i - 1]
      sumX == SumTo(x, n)
      sumXX == SumTo([i \in 1..n |-> x[i] * x[i]], n)
  IN  n * sumXX - sumX * sumX

\* slope and intercept (lines 256-267)
Regression(data) ==
  LET n == Len(data)
      x == [i \in 1..n |-> i - 1]
      y == [i \in 1..n |-> data[i].netFlow]
      sumX == SumTo(x, n)
      sumY == SumTo(y, n)
      sumXY == SumTo([i \in 1..n |-> x[i] * y[i]], n)
      slope == JSDivide(RInt(n * sumXY - sumX * sumY),
                        RInt(RegressionDenominator(n)))
      intercept == RDivInt(RSub(RInt(sumY), RMul(slope, RInt(sumX))), n)
  IN  [slope |-> slope, intercept |-> intercept]

\* mutant: the forecast restarts at x = 0
ForecastValueFromZero(line, n, i) ==
  RAdd(RMul(line.slope, RInt(i)), line.intercept)

\* forecastValue (line 280)
ForecastValue(line, n, i) ==
  RAdd(RMul(line.slope, RInt(n + i)), line.intercept)

\* the two datasets of the 'forecast' case (lines 251-320)
getChartConfiguration(data) ==
  LET n == Len(data)
      line == Regression(data)
  IN  [historical |->
         [k \in 1..(n + forecastPeriods) |->
            IF k <= n THEN Point(RInt(data[k].netFlow)) ELSE NullPoint],
       forecast |->
         [k \in 1..(n + forecastPeriods) |->
            IF k <= n THEN NullPoint
            ELSE Point(ForecastValue(line, n, k - n - 1))]]

MaxForecastTransactions == 2

\* transactions of the first, second and last period and of outside the
\* window
ForecastTransactions(frame) ==
  [period : {0, 1, 2, FramePeriods(frame)}, type : {"income", "expense"},
   amount : {100, 250}]

ForecastTransactionLists(frame) ==
  UNION {[1..k -> ForecastTransactions(frame)] : k \in 0..MaxForecastTransactions}

\* the chart effect (lines 36-53) with analysisType = 'forecast'
RenderForecast(txs, frame) ==
  LET processedData == processTransactionData(txs, frame)
  IN  /\ call = NoCall
      /\ call' = [fn |-> "forecast", transactions |-> txs, timeFrame |-> frame,
                  processedData |-> processedData]
      /\ result' = [fn |-> "forecast",
                    datasets |-> getChartConfiguration(processedData)]
      /\ UNCHANGED <<currencyVars, otherThanUse>>

ForecastNext ==
  \E frame \in TimeFrames :
    \E txs \in ForecastTransactionLists(frame) : RenderForecast(txs, frame)

(***************************************************************************)
(* AuthProvider: src/unnamed/part_000, lines 32-105                        *)
(*                                                                         *)
(* A stored string is a record: what kind of text it is and, for the JSON  *)
(* of a user object, whose it is.                                          *)
(***************************************************************************)
AbsentItem == [kind |-> "absent", user |-> NULL]

\* JSON.stringify(data.user) (lines 68 and 84)
JSONStringify(u) == [kind |-> "object", user |-> u]

\* what the key auth_user may hold when the application starts
StoredUsers ==
  {AbsentItem,
   [kind |-> "undefined", user |-> NULL],
   [kind |-> "malformed", user |-> NULL],
   [kind |-> "null", user |-> NULL]}
    \cup {JSONStringify(u) : u \in ServerUsers}

\* what the key auth_token may hold when the application starts
StoredTokens == {NULL, "invalid"} \cup ServerUsers

\* JSON.parse: the value, or a SyntaxError
JSONParse(item) ==
  IF item.kind = "object" THEN [thrown |-> FALSE, value |-> item.user]
  ELSE IF item.kind = "null" THEN [thrown |-> FALSE, value |-> NULL]
  ELSE [thrown |-> TRUE, value |-> NULL]

\* body of the mount effect (lines 37-53)
RestoreSession(tok, usr, storage) ==
  IF /\ storage.auth_token # NULL
     /\ storage.auth_user.kind # "absent"
     /\ storage.auth_user.kind # "undefined"
    THEN LET parsed == JSONParse(storage.auth_user)
         IN  IF parsed.thrown
               THEN [token |-> storage.auth_token, authUser |-> usr,
                     authStorage |-> [storage EXCEPT !.auth_token = NULL,
                                                     !.auth_user = AbsentItem]]
               ELSE [token |-> storage.auth_token, authUser |-> parsed.value,
                     authStorage |-> storage]
    ELSE [token |-> tok, authUser |-> usr, authStorage |-> storage]

EmptyStorage == [auth_token |-> NULL, auth_user |-> AbsentItem, token |-> NULL]

\* the application's own keys; nothing in the client writes the key `token`
AuthStorages ==
  [auth_token : StoredTokens, auth_user : StoredUsers, token : {NULL}]

AuthInit(stored) ==
  /\ authToken = NULL
  /\ authUser = NULL
  /\ isLoading = TRUE
  /\ authStorage \in stored

AuthIdle == AuthInit({EmptyStorage})

\* the mount effect of AuthProvider (lines 37-53)
AuthMount ==
  /\ isLoading
  /\ LET r == RestoreSession(authToken, authUser, authStorage)
     IN  /\ authToken' = r.token
         /\ authUser' = r.authUser
         /\ authStorage' = r.authStorage
  /\ isLoading' = FALSE
  /\ UNCHANGED otherThanAuth

\* the session a successful POST /api/auth/login or /api/auth/register
\* installs (lines 61-68, 78-84)
InstallSession(data) ==
  /\ authToken' = data.token
  /\ authUser' = data.user
  /\ authStorage' = [authStorage EXCEPT !.auth_token = data.token,
                                        !.auth_user = JSONStringify(data.user)]

\* login (lines 55-72): apiRequest throws on a non-OK answer
login(u, ok) ==
  /\ ~isLoading
  /\ IF ok THEN InstallSession([token |-> u, user |-> u])
           ELSE UNCHANGED <<authToken, authUser, authStorage>>
  /\ UNCHANGED isLoading
  /\ UNCHANGED otherThanAuth

\* register (lines 74-88)
register(u, ok) ==
  /\ ~isLoading
  /\ authUser = NULL
  /\ IF ok THEN InstallSession([token |-> u, user |-> u])
           ELSE UNCHANGED <<authToken, authUser, authStorage>>
  /\ UNCHANGED isLoading
  /\ UNCHANGED otherThanAuth

\* logout (lines 90-95)
logout ==
  /\ ~isLoading
  /\ authUser' = NULL
  /\ authToken' = NULL
  /\ authStorage' = [authStorage EXCEPT !.auth_token = NULL,
                                        !.auth_user = AbsentItem]
  /\ UNCHANGED isLoading
  /\ UNCHANGED otherThanAuth

(***************************************************************************)
(* Notifications: the routes of src/server/routes.ts, lines 383-406, the   *)
(* storage methods of src/server/storage.ts, lines 346-380, and the        *)
(* mutations of NotificationPanel, src/unnamed/part_005, lines 546-578     *)
(***************************************************************************)
NotificationIds == {"n1", "n2"}

NoNotification == [exists |-> FALSE, userId |-> NULL, isRead |-> FALSE]

\* markNotificationAsRead (storage.ts, lines 346-351)
markNotificationAsRead(ns, notificationId) ==
  [n \in DOMAIN ns |->
     IF n = notificationId /\ ns[n].exists
       THEN [ns[n] EXCEPT !.isRead = TRUE] ELSE ns[n]]

\* markAllNotificationsAsRead (storage.ts, lines 353-358)
markAllNotificationsAsRead(ns, userId) ==
  [n \in DOMAIN ns |->
     IF ns[n].exists /\ ns[n].userId = userId
       THEN [ns[n] EXCEPT !.isRead = TRUE] ELSE ns[n]]

\* deleteNotification (storage.ts, lines 375-379)
deleteNotification(ns, notificationId) ==
  [n \in DOMAIN ns |-> IF n = notificationId THEN NoNotification ELSE ns[n]]

\* the three routes that change notifications; param is :notificationId or
\* :userId
NotificationRoutes ==
  {[resource |-> "notifications", method |-> "PATCH", op |-> "read",
    auth |-> "authenticateToken", ownerCheck |-> FALSE],
   [resource |-> "notifications", method |-> "PATCH", op |-> "read-all",
    auth |-> "authenticateToken", ownerCheck |-> TRUE],
   [resource |-> "notifications", method |-> "DELETE", op |-> "delete",
    auth |-> "authenticateToken", ownerCheck |-> FALSE]}

ReadRoute == CHOOSE r \in NotificationRoutes : r.op = "read"
DeleteRoute == CHOOSE r \in NotificationRoutes : r.op = "delete"

\* middleware and handler of a notification route (routes.ts, lines 383-406)
ServeNotification(route, param, tok, storageOk, ns) ==
  LET auth == authenticateToken(tok)
  IN  IF auth.status # 0 THEN [status |-> auth.status, notifications |-> ns]
      ELSE IF route.ownerCheck /\ auth.userId # param
        THEN [status |-> 403, notifications |-> ns]
      ELSE IF ~storageOk THEN [status |-> 500, notifications |-> ns]
      ELSE [status |-> 200,
            notifications |->
              IF route.op = "read" THEN markNotificationAsRead(ns, param)
              ELSE IF route.op = "read-all"
                THEN markAllNotificationsAsRead(ns, param)
              ELSE deleteNotification(ns, param)]

NotificationsIdle == notifications = [n \in NotificationIds |-> NoNotification]

\* the table when a study starts: each row absent, or an unread
\* notification of one of the users
NotificationTables ==
  [NotificationIds ->
     {NoNotification}
       \cup {[exists |-> TRUE, userId |-> u, isRead |-> FALSE] : u \in ServerUsers}]

\* the server answers a request to one of the three routes
HandleNotificationRequest(route, param, tok, storageOk) ==
  LET served == ServeNotification(route, param, tok, storageOk, notifications)
  IN  /\ request' = [route |-> route, userId |-> param, token |-> tok]
      /\ response' = Answer(served.status, FALSE,
                            served.notifications # notifications)
      /\ notifications' = served.notifications
      /\ UNCHANGED <<records, currencyVars, chartVars, projVars, useVars,
                     authVars, timerVars>>

\* the token that `Bearer ${localStorage.getItem(key)}` puts after the
\* space: the text null when the key is absent
BearerOf(item) == IF item = NULL THEN "null" ELSE item

\* markAsReadMutation / deleteNotificationMutation (part_005, lines 546-578):
\* the request, the server's answer and, on success, the invalidation of
\* the list and count queries
PanelMutation(route, notificationId) ==
  LET tok == BearerOf(authStorage.token)
      served == ServeNotification(route, notificationId, tok, TRUE, notifications)
      ok == served.status = 200
  IN  /\ ~isLoading
      /\ authUser # NULL
      /\ notifications[notificationId].exists
      /\ notifications[notificationId].userId = authUser
      /\ request' = [route |-> route, userId |-> notificationId, token |-> tok]
      /\ response' = Answer(served.status, FALSE,
                            served.notifications # notifications)
      /\ notifications' = served.notifications
      /\ call' = [fn |-> "mutation", op |-> route.op,
                  notificationId |-> notificationId]
      /\ result' = [fn |-> "mutation", ok |-> ok, invalidated |-> ok]
      /\ UNCHANGED <<records, currencyVars, chartVars, projVars, authVars,
                     timerVars>>

(***************************************************************************)
(* The two periodic timers: setInterval(fetchExchangeRates, 5 * 60 * 1000) *)
(* of CurrencyProvider (currency-context.tsx, lines 100-105) and the       *)
(* refetchInterval of the count query of Navigation (navigation.tsx,       *)
(* lines 16-20).  One tick of model time is the shorter period.            *)
(***************************************************************************)
RefreshIntervalMs == 5 * 60 * 1000
PollIntervalMs == 30000

RefreshTicks == RefreshIntervalMs \div PollIntervalMs
PollTicks == PollIntervalMs \div PollIntervalMs

\* mutant: the cleanup of the mount effect does not clear the interval
IntervalActiveNoCleanup(ph) == ph # "created"

\* the interval exists from the mount effect to its cleanup (lines 103-104)
IntervalActive(ph) == ph = "mounted"

\* the count query is enabled (navigation.tsx, line 18)
PollEnabled == authUser # NULL

TimersIdle ==
  /\ sinceRefresh = 0
  /\ sincePoll = PollTicks

SessionIdle ==
  /\ AuthIdle
  /\ NotificationsIdle
  /\ TimersIdle

\* one tick passes: no callback is due
Tick ==
  /\ phase # "created"
  /\ IntervalActive(phase) => sinceRefresh < RefreshTicks
  /\ PollEnabled => sincePoll < PollTicks
  /\ sinceRefresh' = Min(sinceRefresh + 1, RefreshTicks + 1)
  /\ sincePoll' = Min(sincePoll + 1, PollTicks)
  /\ UNCHANGED <<authVars, notificationVars, otherThanSession>>

\* the interval callback runs (line 103)
IntervalFires ==
  /\ IntervalActive(phase)
  /\ pendingEffects = {}
  /\ sinceRefresh >= RefreshTicks
  /\ BeginFetch(InitialDollarType)
  /\ sinceRefresh' = 0
  /\ UNCHANGED <<sincePoll, authVars, notificationVars, chartVars, projVars,
                 serverVars, useVars>>

\* the count query runs: when it becomes enabled and every 30 seconds
\* (navigation.tsx, lines 16-20)
PollCount ==
  /\ PollEnabled
  /\ sincePoll >= PollTicks
  /\ sincePoll' = 0
  /\ UNCHANGED <<sinceRefresh, authVars, notificationVars, otherThanSession>>

\* the provider unmounts: the cleanup of the mount effect (line 104)
Unmount ==
  /\ phase = "mounted"
  /\ pendingEffects = {}
  /\ phase' = "unmounted"
  /\ UNCHANGED <<user, localStorage, currency, dollarType, dollarRates,
                 exchangeRate, isLoadingRates, pendingEffects, inFlight,
                 lastOutcomes, raised>>
  /\ UNCHANGED otherThanCurrency

\* a refresh settles while the provider is mounted
SettleMounted(captured, outcomes) ==
  /\ phase = "mounted"
  /\ CompleteFetch(captured, outcomes)

\* a refresh settles after the unmount: React drops the state updates
SettleUnmounted(captured) ==
  /\ phase = "unmounted"
  /\ inFlight[captured] > 0
  /\ inFlight' = [inFlight EXCEPT ![captured] = @ - 1]
  /\ UNCHANGED <<user, localStorage, currency, dollarType, dollarRates,
                 exchangeRate, isLoadingRates, phase, pendingEffects,
                 lastOutcomes, raised>>
  /\ UNCHANGED otherThanCurrency

(***************************************************************************)
(* Specifications: one component at a time, the others at rest             *)
(***************************************************************************)
ChartSpecInit ==
  /\ ChartInit
  /\ CurrencyIdle
  /\ ProjIdle
  /\ ServerIdle
  /\ UseIdle
  /\ SessionIdle

SpecChart == ChartSpecInit /\ [][ChartNext]_vars

MetricsSpecInit ==
  /\ MetricsInit
  /\ CurrencyIdle
  /\ ChartIdle
  /\ ServerIdle
  /\ UseIdle
  /\ SessionIdle

SpecMetrics == MetricsSpecInit /\ [][MetricsNext]_vars

ProjectionSpecInit ==
  /\ ProjInit
  /\ CurrencyIdle
  /\ ChartIdle
  /\ ServerIdle
  /\ UseIdle
  /\ SessionIdle

SpecProjection == ProjectionSpecInit /\ [][ProjNext]_vars

ServerSpecInit ==
  /\ ServerIdle
  /\ CurrencyIdle
  /\ ChartIdle
  /\ ProjIdle
  /\ UseIdle
  /\ SessionIdle

SpecServer == ServerSpecInit /\ [][ServerNext]_vars

\* the provider with an empty preference store and no session: every
\* combination of request outcomes, refreshes and subtype selections
RatesInit ==
  /\ CurrencyInit({[preferred_currency |-> NULL, preferred_dollar_type |-> NULL]})
  /\ ChartIdle
  /\ ProjIdle
  /\ ServerIdle
  /\ UseIdle
  /\ SessionIdle

RatesNext ==
  \/ Mount
  \/ SyncEffect
  \/ \E d \in DollarTypes : setDollarType(d)
  \/ TimerRefresh
  \/ ManualRefresh
  \/ \E t \in DollarTypes, o \in [DollarTypes -> Outcomes] : CompleteFetch(t, o)

SpecRates == RatesInit /\ [][RatesNext]_vars

\* the provider with every stored preference and profile: restores and
\* selections, with coarse request outcomes
PrefsInit ==
  /\ CurrencyInit([preferred_currency : StoredCurrencies,
                   preferred_dollar_type : StoredDollarTypes])
  /\ ChartIdle
  /\ ProjIdle
  /\ ServerIdle
  /\ UseIdle
  /\ SessionIdle

PrefsNext ==
  \/ Mount
  \/ \E u \in Users : UserChange(u)
  \/ RestoreEffect
  \/ SyncEffect
  \/ \E c \in Currencies : setCurrency(c)
  \/ \E d \in DollarTypes : setDollarType(d)
  \/ \E t \in DollarTypes, o \in [DollarTypes -> CoarseOutcomes] : CompleteFetch(t, o)

SpecPrefs == PrefsInit /\ [][PrefsNext]_vars

\* quote endpoints that may answer any number, negative ones included
SignedOutcomes ==
  {[kind |-> "network", venta |-> 0, compra |-> 0],
   [kind |-> "ok", venta |-> 1500, compra |-> 900],
   [kind |-> "ok", venta |-> -1500, compra |-> 900],
   [kind |-> "ok", venta |-> 0, compra |-> -900]}

QuotesInit ==
  /\ CurrencyInit({[preferred_currency |-> NULL, preferred_dollar_type |-> NULL]})
  /\ ChartIdle
  /\ ProjIdle
  /\ ServerIdle
  /\ UseIdle
  /\ SessionIdle

QuotesNext ==
  \/ Mount
  \/ SyncEffect
  \/ TimerRefresh
  \/ \E t \in DollarTypes, o \in [DollarTypes -> SignedOutcomes] : CompleteFetch(t, o)

SpecQuotes == QuotesInit /\ [][QuotesNext]_vars

\* the provider together with a component that formats and converts amounts
ConvertInit ==
  /\ CurrencyInit({[preferred_currency |-> NULL, preferred_dollar_type |-> "blue"]})
  /\ ChartIdle
  /\ ProjIdle
  /\ ServerIdle
  /\ UseIdle
  /\ SessionIdle

ConvertNext ==
  \/ Mount
  \/ SyncEffect
  \/ \E c \in Currencies : setCurrency(c)
  \/ \E t \in DollarTypes, o \in [DollarTypes -> CoarseOutcomes] : CompleteFetch(t, o)
  \/ \E a \in Amounts, from \in CallCurrencies, to \in CallCurrencies :
       CallConvert(a, from, to)
  \/ \E a \in Amounts : CallRoundTrip(a)
  \/ \E a \in Amounts, showSymbol \in BOOLEAN : CallFormat(a, showSymbol)

SpecConvert == ConvertInit /\ [][ConvertNext]_vars

ScaleInit ==
  /\ UseIdle
  /\ SessionIdle
  /\ CurrencyIdle
  /\ ChartIdle
  /\ ProjIdle
  /\ ServerIdle

SpecScale == ScaleInit /\ [][ScaleNext]_vars

RatiosInit ==
  /\ UseIdle
  /\ SessionIdle
  /\ CurrencyIdle
  /\ ChartIdle
  /\ ProjIdle
  /\ ServerIdle

SpecRatios == RatiosInit /\ [][RatiosNext]_vars

InsightsInit ==
  /\ UseIdle
  /\ SessionIdle
  /\ CurrencyIdle
  /\ ChartIdle
  /\ ProjIdle
  /\ ServerIdle

SpecInsights == InsightsInit /\ [][InsightsNext]_vars

ModifiedInit ==
  /\ CurrencyIdle
  /\ ChartIdle
  /\ ProjIdle
  /\ ServerIdle
  /\ UseIdle
  /\ SessionIdle

SpecModified == ModifiedInit /\ [][ModifiedNext]_vars

ForecastInit ==
  /\ CurrencyIdle
  /\ ChartIdle
  /\ ProjIdle
  /\ ServerIdle
  /\ UseIdle
  /\ SessionIdle

SpecForecast == ForecastInit /\ [][ForecastNext]_vars

\* the signed-in client from startup: every content of the two session
\* keys, any notifications on the server, sign-in, sign-out and the
\* mutations of the notification panel
SessionInit ==
  /\ CurrencyIdle
  /\ ChartIdle
  /\ ProjIdle
  /\ ServerIdle
  /\ UseIdle
  /\ AuthInit(AuthStorages)
  /\ notifications \in NotificationTables
  /\ TimersIdle

SessionNext ==
  \/ AuthMount
  \/ \E u \in ServerUsers, ok \in BOOLEAN : login(u, ok)
  \/ \E u \in ServerUsers, ok \in BOOLEAN : register(u, ok)
  \/ logout
  \/ \E route \in {ReadRoute, DeleteRoute}, n \in NotificationIds :
       PanelMutation(route, n)

SpecSession == SessionInit /\ [][SessionNext]_vars

\* the notification routes under requests of two users with any token
NotificationsInit ==
  /\ CurrencyIdle
  /\ ChartIdle
  /\ ProjIdle
  /\ ServerIdle
  /\ UseIdle
  /\ AuthIdle
  /\ notifications \in NotificationTables
  /\ TimersIdle

NotificationsNext ==
  \E route \in NotificationRoutes, param \in NotificationIds \cup ServerUsers,
     tok \in Tokens, storageOk \in BOOLEAN :
    HandleNotificationRequest(route, param, tok, storageOk)

SpecNotifications == NotificationsInit /\ [][NotificationsNext]_vars

PageInit ==
  /\ CurrencyIdle
  /\ ChartIdle
  /\ ProjIdle
  /\ ServerIdle
  /\ UseIdle
  /\ SessionIdle

SpecPage == PageInit /\ [][PageNext]_vars

\* the provider from mount to unmount with both timers running, beside a
\* session that starts signed in or signed out
TimersInit ==
  /\ CurrencyInit({[preferred_currency |-> NULL, preferred_dollar_type |-> NULL]})
  /\ ChartIdle
  /\ ProjIdle
  /\ ServerIdle
  /\ UseIdle
  /\ AuthInit({EmptyStorage,
               [auth_token |-> "u1", auth_user |-> JSONStringify("u1"),
                token |-> NULL]})
  /\ NotificationsIdle
  /\ TimersIdle

TimersNext ==
  \/ Mount
  \/ SyncEffect
  \/ Tick
  \/ IntervalFires
  \/ ManualRefresh
  \/ Unmount
  \/ \E t \in DollarTypes, o \in [DollarTypes -> CoarseOutcomes] : SettleMounted(t, o)
  \/ \E t \in DollarTypes : SettleUnmounted(t)
  \/ AuthMount
  \/ PollCount
  \/ \E u \in ServerUsers : login(u, TRUE)
  \/ logout

SpecTimers == TimersInit /\ [][TimersNext]_vars

(***************************************************************************)
(* Claims about the currency provider                                      *)
(***************************************************************************)
Failed(o) == o.kind \in {"network", "status"}
Completed == \A k \in DollarTypes : lastOutcomes[k].kind # "none"
LiveQuote(o) == IF o.venta # 0 THEN o.venta ELSE o.compra

\* C1 (as stated): after a refresh, a key holds its fallback constant exactly
\* when its request failed, and the live quote of the response when its
\* request succeeded.
C1_FallbackExactlyForFailed ==
  Completed =>
    \A k \in DollarTypes :
      /\ Failed(lastOutcomes[k]) <=> dollarRates[k] = FALLBACK_RATES[k]
      /\ ~Failed(lastOutcomes[k]) => dollarRates[k] = LiveQuote(lastOutcomes[k])

\* C1 (amended): after a refresh, each key is decided by its own request
\* alone: the fallback constant when the request failed or its response has
\* no non-zero venta/compra, otherwise venta, or compra when venta is absent.
C1_PerKeyIsolation ==
  Completed =>
    \A k \in DollarTypes :
      dollarRates[k] =
        IF Failed(lastOutcomes[k]) \/ LiveQuote(lastOutcomes[k]) = 0
          THEN FALLBACK_RATES[k]
          ELSE LiveQuote(lastOutcomes[k])

\* one request failed, two succeeded with live quotes
C1_Witness ==
  /\ lastOutcomes["oficial"].kind = "status"
  /\ lastOutcomes["blue"].kind = "ok" /\ lastOutcomes["blue"].venta = 1500
  /\ lastOutcomes["mep"].kind = "ok" /\ lastOutcomes["mep"].venta = 0
  /\ lastOutcomes["mep"].compra = 900
  /\ dollarRates = [oficial |-> 1270, blue |-> 1500, mep |-> 900]

\* C2: in every rendered state the rate used by convertAmount / formatAmount
\* is the snapshot's quote for the selected dollar subtype.
C2_RateMatchesSelection == exchangeRate = dollarRates[dollarType]

\* C9: every completing fetchExchangeRates raises nothing, installs a
\* snapshot with the three keys and leaves isLoadingRates false.
C9_FetchAlwaysCompletes ==
  [][NumInFlight' < NumInFlight =>
       /\ ~raised'
       /\ DOMAIN dollarRates' = DollarTypes
       /\ ~isLoadingRates']_vars

\* a refresh whose three requests all failed has completed
C9_Witness ==
  /\ lastOutcomes["oficial"].kind = "network"
  /\ lastOutcomes["blue"].kind = "status"
  /\ lastOutcomes["mep"].kind = "network"
  /\ dollarRates = FALLBACK_RATES
  /\ ~isLoadingRates
  /\ NumInFlight = 0

\* C10: the display currency is ARS or USD and the dollar subtype is oficial,
\* blue or mep in every reachable state.
C10_PreferenceDomain ==
  /\ currency \in Currencies
  /\ dollarType \in DollarTypes

\* C11: every quote of the cached snapshot is non-negative, whatever numbers
\* the quote endpoints return.
C11_QuotesNonNegative == \A t \in DollarTypes : dollarRates[t] >= 0

(***************************************************************************)
(* Claims about convertAmount and formatAmount                             *)
(***************************************************************************)
Converted == call.fn = "convertAmount"

\* the pair is ARS -> USD or USD -> ARS
RealConversion ==
  \/ call.from = "ARS" /\ call.to = "USD"
  \/ call.from = "USD" /\ call.to = "ARS"

\* the amount is a string that does not parse to a number
Malformed == call.amount.type = "string" /\ isNaN(parseFloat(call.amount.chars))

\* C12: convertAmount returns a numeric amount unchanged for equal currencies
\* and for every pair other than ARS -> USD and USD -> ARS, in every state of
\* the currency service.
C12_ConvertIdentity ==
  (Converted /\ ~isNaN(NumericAmount(call.amount)) /\ ~RealConversion) =>
    result.value = NumericAmount(call.amount)

\* USD to USD on a live rate
C12_Witness ==
  /\ Converted
  /\ call.from = "USD" /\ call.to = "USD"
  /\ call.amount = NumberAmount(RInt(1270))
  /\ exchangeRate = 1500
  /\ result.value = RInt(1270)

\* C13: for an input string that does not parse to a number, convertAmount
\* returns 0 for every pair and formatAmount returns "0" in either display
\* currency, with or without the symbol.
C13_MalformedInput ==
  /\ (Converted /\ Malformed) => result.value = RInt(0)
  /\ (call.fn = "formatAmount" /\ Malformed) => result.value = ZeroText

\* "abc" formatted with the symbol while USD is displayed
C13_Witness ==
  /\ call.fn = "formatAmount"
  /\ call.amount = StringAmount(<<"a", "b", "c">>)
  /\ call.showSymbol
  /\ currency = "USD"
  /\ result.value = ZeroText

\* C14: with the rate held fixed, converting ARS to USD and back returns the
\* amount.
C14_RoundTrip ==
  call.fn = "roundTrip" => result.value = NumericAmount(call.amount)

\* 1270 pesos at 1500 are 127/150 dollars, which convert back to 1270
C14_Witness ==
  /\ call.fn = "roundTrip"
  /\ call.amount = NumberAmount(RInt(1270))
  /\ exchangeRate = 1500
  /\ result.value = RInt(1270)

(***************************************************************************)
(* Claims about RealDataChart                                              *)
(***************************************************************************)
RECURSIVE SumInWindow(_, _, _, _, _)
SumInWindow(txs, k, type, startDate, now) ==
  IF k > Len(txs) THEN 0
  ELSE (IF txs[k].type = type /\ txs[k].date >= startDate /\ txs[k].date <= now
          THEN txs[k].amount ELSE 0)
       + SumInWindow(txs, k + 1, type, startDate, now)

RECURSIVE SumBuckets(_, _, _)
SumBuckets(pd, i, type) ==
  IF i > Len(pd) THEN 0
  ELSE (IF type = "income" THEN pd[i].income ELSE pd[i].expense)
       + SumBuckets(pd, i + 1, type)

\* C3: for each time range the buckets partition the in-window transactions:
\* the bucket incomes (expenses) add up to the income (expenses) of the
\* transactions dated in [startDate, now].
C3_BucketsPartitionWindow ==
  Len(transactions) > 0 =>
    \A type \in {"income", "expense"} :
      SumBuckets(periodData, 1, type)
        = SumInWindow(transactions, 1, type, StartDate(chartNow, localTimeRange), chartNow)

(***************************************************************************)
(* Claims about calculateProjectionMetrics                                 *)
(***************************************************************************)
RECURSIVE Total(_, _, _)
Total(data, k, field) ==
  IF k = 0 THEN 0 ELSE data[k][field].n + Total(data, k - 1, field)

\* the historical averages of a series: the mean of the income and expense
\* fields, or the 1.7 / 0.7 estimate from the mean net flow of a series that
\* carries no income field
MeanOf(data, field) == Rat(Total(data, Len(data), field), Len(data))
HistIncome(data) ==
  IF data[1].hasIncome THEN MeanOf(data, "projectedIncome")
  ELSE IF MeanOf(data, "netFlow").n < 0
         THEN Rat(7 * Abs(Total(data, Len(data), "netFlow")), 10 * Len(data))
         ELSE Rat(17 * Abs(Total(data, Len(data), "netFlow")), 10 * Len(data))
HistExpenses(data) ==
  IF data[1].hasIncome THEN MeanOf(data, "projectedExpenses")
  ELSE IF MeanOf(data, "netFlow").n < 0
         THEN Rat(17 * Abs(Total(data, Len(data), "netFlow")), 10 * Len(data))
         ELSE Rat(7 * Abs(Total(data, Len(data), "netFlow")), 10 * Len(data))

IdentityScenario(sc) ==
  /\ sc.incomeGrowth = 0 /\ sc.expenseReduction = 0
  /\ sc.marketGrowth = 0 /\ sc.inflationRate = RInt(0)

\* the claimed per-period values, as fractions over 10^4 and 12 * 10^5
ClaimedIncome(data, sc) ==
  RMul(HistIncome(data),
       Rat((100 + sc.incomeGrowth) * (100 + sc.marketGrowth), 10000))
ClaimedExpenses(data, sc) ==
  RMul(HistExpenses(data),
       RMul(Rat(100 - sc.expenseReduction, 100),
            Rat(1200 * sc.inflationRate.d + sc.inflationRate.n,
                1200 * sc.inflationRate.d)))

\* C4: the metrics use income avg x (1 + incomeGrowth/100) x (1 +
\* marketGrowth/100) and expenses avg x (1 - expenseReduction/100) x (1 +
\* inflationRate/100/12) per period; with the four percentages at 0 the
\* per-period income, expenses and net flow are the historical averages.
C4_ScenarioApplication ==
  (projEvaluated /\ Len(effectiveData) > 0) =>
    LET m == projectionMetrics
        inc == ClaimedIncome(effectiveData, scenario)
        exp == ClaimedExpenses(effectiveData, scenario)
    IN  /\ m.averageMonthlyFlow = RSub(inc, exp)
        /\ m.totalProjectedIncome
             = RAdd(RMul(inc, RInt(projectionPeriod)), RInt(scenario.oneTimeIncome))
        /\ m.totalProjectedExpenses
             = RAdd(RMul(exp, RInt(projectionPeriod)), RInt(scenario.oneTimeExpense))
        /\ IdentityScenario(scenario) =>
             /\ m.averageMonthlyFlow
                  = RSub(HistIncome(effectiveData), HistExpenses(effectiveData))
             /\ RSub(m.totalProjectedIncome, RInt(scenario.oneTimeIncome))
                  = RMul(HistIncome(effectiveData), RInt(projectionPeriod))
             /\ RSub(m.totalProjectedExpenses, RInt(scenario.oneTimeExpense))
                  = RMul(HistExpenses(effectiveData), RInt(projectionPeriod))

\* the identity scenario on a series with income 1000, 1000 and expenses 400, 0
C4_Witness ==
  /\ projEvaluated
  /\ effectiveData = <<Item(1000, 400), Item(1000, 0)>>
  /\ IdentityScenario(scenario)
  /\ projectionMetrics.averageMonthlyFlow = RInt(800)

\* C6: risk is high exactly when worstCase < 0 and netProjectedFlow < 2 x
\* average income, low exactly when that fails and netProjectedFlow > 6 x
\* average income, medium otherwise.
C6_RiskClassification ==
  (projEvaluated /\ Len(effectiveData) > 0) =>
    LET m == projectionMetrics
        avgIncome == HistIncome(effectiveData)
        isHigh == /\ m.worstCaseScenario.n < 0
                  /\ m.netProjectedFlow.n * avgIncome.d
                       < 2 * avgIncome.n * m.netProjectedFlow.d
        isLow == /\ ~isHigh
                 /\ m.netProjectedFlow.n * avgIncome.d
                      > 6 * avgIncome.n * m.netProjectedFlow.d
    IN  /\ (m.riskLevel = "high") <=> isHigh
        /\ (m.riskLevel = "low") <=> isLow
        /\ (m.riskLevel = "medium") <=> (~isHigh /\ ~isLow)

\* a worst case of exactly 0 with a net flow of 2400 >= 2 x 1000
C6_Witness ==
  /\ projEvaluated
  /\ effectiveData = <<Item(1000, 0)>>
  /\ projectionMetrics.worstCaseScenario = RInt(0)
  /\ projectionMetrics.netProjectedFlow = RInt(2400)
  /\ projectionMetrics.riskLevel = "medium"

(***************************************************************************)
(* Claims about the InteractiveProjections pipeline                        *)
(***************************************************************************)
\* the two transactions of the end-to-end scenario, in either order
EndToEndTransactions ==
  {<<[month |-> 1, type |-> "income", amount |-> 1000],
     [month |-> 1, type |-> "expense", amount |-> 400]>>,
   <<[month |-> 1, type |-> "expense", amount |-> 400],
     [month |-> 1, type |-> "income", amount |-> 1000]>>}

\* C5: with no stored projections, one income of 1000 and one expense of 400
\* in the same bucket give the metrics the averages 1000 and 400, and the
\* identity scenario gives a per-bucket net flow of 600.
C5_EndToEndAverages ==
  (storedData = <<>> /\ projTransactions \in EndToEndTransactions) =>
    /\ HistoricalAverages(effectiveData)
         = [avgIncome |-> RInt(1000), avgExpenses |-> RInt(400)]
    /\ IdentityScenario(scenario) => projectionMetrics.averageMonthlyFlow = RInt(600)

\* C17: two evaluations of the pipeline on the same transactions, period and
\* scenario give identical metrics.
C17_MetricsArePure ==
  [][(/\ storedData = <<>>
      /\ projTransactions' = projTransactions
      /\ scenario' = scenario
      /\ projectionPeriod' = projectionPeriod)
       => projectionMetrics' = projectionMetrics]_vars

(***************************************************************************)
(* Claims about the REST server                                            *)
(***************************************************************************)
Handled == request # NoRequest

\* the token is missing, unverifiable, or issued to another user than :userId
Unauthorized == verifyToken(request.token) # request.userId

\* C7: every route with :userId answers 401 or 403, and neither reads nor
\* writes the user's data, when the token is missing, invalid or another
\* user's.
C7_UserRoutesRequireOwner ==
  (Handled /\ Unauthorized) =>
    /\ response.status \in {401, 403}
    /\ ~response.read
    /\ ~response.wrote

\* C8: on routes guarded by authenticateToken, a missing or invalid token is
\* answered 401, and 403 is answered only to a valid token of a user who is
\* not the owner.
C8_StatusDistinguishesCause ==
  (Handled /\ request.route.auth = "authenticateToken") =>
    /\ verifyToken(request.token) = NULL => response.status = 401
    /\ response.status = 403 =>
         /\ verifyToken(request.token) # NULL
         /\ verifyToken(request.token) # request.userId

(***************************************************************************)
(* Claims about the chart formatters                                       *)
(***************************************************************************)
\* the absolute values of a series
AbsValues(values) == {Abs(values[k]) : k \in 1..Len(values)}

\* the scale the thresholds prescribe for a series
ClaimedScale(values) ==
  IF \E a \in AbsValues(values) : a >= 1000000 THEN "millions"
  ELSE IF \E a \in AbsValues(values) : a >= 1000 THEN "thousands"
  ELSE "units"

ScaleRank(scale) ==
  CASE scale = "units" -> 0 [] scale = "thousands" -> 1 [] scale = "millions" -> 2

\* C15: determineScale returns millions from 1,000,000 on, thousands from
\* 1,000 on and units otherwise (also for the empty series), and is monotonic
\* in the maximum absolute value.
C15_ScaleThresholds ==
  call.fn = "determineScale" =>
    /\ result.value = ClaimedScale(call.values)
    /\ \A other \in ScaleSeries :
         (\A a \in AbsValues(other) : \E b \in AbsValues(call.values) : a <= b)
           => ScaleRank(determineScale(other)) <= ScaleRank(result.value)

\* a series whose largest absolute value is exactly 1,000,000
C15_Witness ==
  /\ call.fn = "determineScale"
  /\ call.values = <<999, -1000000>>
  /\ result.value = "millions"

\* C16: all ticks and tooltips formatted during one rendering of a chart use
\* the same scale unit.
C16_OneUnitPerChart ==
  call.fn \in {"renderTicks", "renderTooltips"} =>
    \A v, w \in DOMAIN result.labels : result.labels[v].suffix = result.labels[w].suffix

(***************************************************************************)
(* Claims about the ratios of the KPI and projection layer                 *)
(***************************************************************************)
RatioFns == {"percentChange", "trendRate", "breakEvenPoint", "casePercents"}

\* C18: every ratio with a data-dependent denominator yields 0, not NaN or
\* Infinity, when its denominator is 0.
C18_ZeroDenominatorYieldsZero ==
  (call.fn \in RatioFns /\ result.denominator = RInt(0)) =>
    result.values = {RInt(0)}

(***************************************************************************)
(* Claims about SmartInsightsGenerator                                     *)
(***************************************************************************)
\* the expenses of a category and of all categories, summed over the list
ExpensesOf(txs, categories) ==
  LET idx == {k \in 1..Len(txs) : txs[k].type = "expense" /\ txs[k].categoryId \in categories}
      RECURSIVE Sum(_)
      Sum(S) == IF S = {} THEN 0
                ELSE LET k == CHOOSE x \in S : TRUE IN txs[k].amount + Sum(S \ {k})
  IN  Sum(idx)

AllCategories == {"a", "b"}

\* the insights of a result, as a set
InsightSet == {result.insights[i] : i \in 1..Len(result.insights)}

\* C19: detectSpendingPatterns emits a pattern insight for a category exactly
\* when its share of the total expenses is above 30%, with priority high
\* exactly when the share is above 50%; income never contributes.
C19_CategoryConcentration ==
  call.fn = "detectSpendingPatterns" =>
    LET txs == call.transactions
        total == ExpensesOf(txs, AllCategories)
    IN  /\ Cardinality(InsightSet) = Len(result.insights)
        /\ \A ins \in InsightSet : ins.type = "pattern"
        /\ \A c \in AllCategories :
             LET amount == ExpensesOf(txs, {c})
                 emitted == {ins \in InsightSet : ins.id = <<"pattern", c>>}
             IN  /\ (emitted # {}) <=> (100 * amount > 30 * total)
                 /\ \A ins \in emitted :
                      ins.priority = IF 100 * amount > 50 * total THEN "high" ELSE "medium"

\* category a holds exactly 30% and category b 70% of the expenses, next to
\* nothing else
C19_Witness ==
  /\ call.fn = "detectSpendingPatterns"
  /\ call.transactions = <<[type |-> "expense", categoryId |-> "a", amount |-> 300],
                           [type |-> "expense", categoryId |-> "b", amount |-> 700]>>
  /\ result.insights = <<PatternInsight("b", "high")>>

\* C20: with at least 3 buckets, exactly one high alert when the net flow is
\* strictly decreasing over the last 3 buckets, exactly one medium
\* opportunity when it is strictly increasing, never both, and nothing
\* otherwise or with fewer than 3 buckets.
C20_TrendDetection ==
  call.fn = "detectCashFlowTrends" =>
    LET f == call.netFlows
        n == Len(f)
        decreasing == n >= 3 /\ f[n - 2] > f[n - 1] /\ f[n - 1] > f[n]
        increasing == n >= 3 /\ f[n - 2] < f[n - 1] /\ f[n - 1] < f[n]
    IN  /\ decreasing => result.insights = <<TrendAlert>>
        /\ increasing => result.insights = <<TrendOpportunity>>
        /\ (~decreasing /\ ~increasing) => result.insights = <<>>
        /\ Len(result.insights) <= 1

\* four buckets that rise first and then fall twice
C20_Witness ==
  /\ call.fn = "detectCashFlowTrends"
  /\ call.netFlows = <<0, 100, 0, -100>>
  /\ result.insights = <<TrendAlert>>

C27_LoadingWhileInFlight == NumInFlight > 0 => isLoadingRates

(***************************************************************************)
(* Claims about the projection band and the scenario application           *)
(***************************************************************************)
\* fractions are kept in lowest terms, so equal numbers are equal records
REq(a, b) == a = b
RLe(a, b) == RSub(b, a).n >= 0

\* 0.2 x |monthly net flow| x months, from the returned monthly flow
Band(metrics, months) ==
  RMul(RMul(Rat(2, 10), RAbs(metrics.averageMonthlyFlow)), RInt(months))

\* C22: for a non-empty input, worstCaseScenario is netProjectedFlow minus
\* 0.2 x |monthly net flow| x months and bestCaseScenario is netProjectedFlow
\* plus the same amount, so worst <= net <= best and the band is symmetric.
C22_VarianceBand ==
  (projEvaluated /\ Len(effectiveData) > 0) =>
    LET m == projectionMetrics
        band == Band(m, projectionPeriod)
    IN  /\ REq(m.worstCaseScenario, RSub(m.netProjectedFlow, band))
        /\ REq(m.bestCaseScenario, RAdd(m.netProjectedFlow, band))
        /\ RLe(m.worstCaseScenario, m.netProjectedFlow)
        /\ RLe(m.netProjectedFlow, m.bestCaseScenario)
        /\ REq(RSub(m.bestCaseScenario, m.netProjectedFlow),
               RSub(m.netProjectedFlow, m.worstCaseScenario))

\* a losing month: the band is not empty and the net flow is negative
C22_Witness ==
  /\ projEvaluated
  /\ Len(effectiveData) > 0
  /\ projectionMetrics.averageMonthlyFlow.n < 0
  /\ projectionMetrics.worstCaseScenario # projectionMetrics.netProjectedFlow
  /\ projectionMetrics.netProjectedFlow.n < 0

\* sum of one field of a series
SeriesTotal(data, field) == SumField(data, 1, field)

\* C23: a scenario applied to a series adds the one-time income and expense
\* to the first bucket only: every later bucket is its original scaled by
\* the percentage adjustments, and the series totals exceed the purely
\* scaled totals by exactly oneTimeIncome and oneTimeExpense, the amounts
\* the summary totals add once.
C23_OneTimeFirstBucketOnly ==
  call.fn = "calculateModifiedData" =>
    LET data == call.originalData
        sc == call.scenario
        modified == result.value
        scaled == [i \in 1..Len(data) |-> ScaledItem(data[i], sc)]
        avg == HistoricalAverages(data)
    IN  /\ Len(modified) = Len(data)
        /\ \A i \in 2..Len(data) : modified[i] = scaled[i]
        /\ REq(RSub(SeriesTotal(modified, "projectedIncome"),
                    SeriesTotal(scaled, "projectedIncome")),
               RInt(sc.oneTimeIncome))
        /\ REq(RSub(SeriesTotal(modified, "projectedExpenses"),
                    SeriesTotal(scaled, "projectedExpenses")),
               RInt(sc.oneTimeExpense))
        /\ REq(RSub(result.metrics.totalProjectedIncome,
                    RMul(ProjectedIncome(avg.avgIncome, sc), RInt(call.months))),
               RInt(sc.oneTimeIncome))
        /\ REq(RSub(result.metrics.totalProjectedExpenses,
                    RMul(ProjectedExpenses(avg.avgExpenses, sc), RInt(call.months))),
               RInt(sc.oneTimeExpense))

\* two buckets, both one-time amounts and both percentages set
C23_Witness ==
  /\ call.fn = "calculateModifiedData"
  /\ Len(call.originalData) = 2
  /\ call.scenario.oneTimeIncome = 5000
  /\ call.scenario.oneTimeExpense = 9600
  /\ call.scenario.incomeGrowth = 25
  /\ call.scenario.expenseReduction = 15
  /\ result.value[1].projectedIncome # result.value[2].projectedIncome
  /\ call.originalData[1] = call.originalData[2]

(***************************************************************************)
(* Claims about the forecast analysis                                      *)
(***************************************************************************)
\* the line through the first two forecast points, as slope and intercept
\* over the bucket index
ForecastLine(forecast, n) ==
  LET a == RSub(forecast[n + 2].value, forecast[n + 1].value)
  IN  [slope |-> a,
       intercept |-> RSub(forecast[n + 1].value, RMul(a, RInt(n)))]

\* the normal equations of the least-squares fit to (index, netFlow):
\* the residuals and the index-weighted residuals both sum to zero
NormalEquations(line, data) ==
  LET n == Len(data)
      residual == [i \in 1..n |->
                     RSub(RInt(data[i].netFlow),
                          RAdd(RMul(line.slope, RInt(i - 1)), line.intercept))]
      weighted == [i \in 1..n |-> RMul(RInt(i - 1), residual[i])]
      ResidualTotal[k \in 0..n] ==
        IF k = 0 THEN RInt(0) ELSE RAdd(ResidualTotal[k - 1], residual[k])
      WeightedTotal[k \in 0..n] ==
        IF k = 0 THEN RInt(0) ELSE RAdd(WeightedTotal[k - 1], weighted[k])
  IN  ResidualTotal[n] = RInt(0) /\ WeightedTotal[n] = RInt(0)

\* C24: for every time frame the historical dataset has a value at exactly
\* the indices of the historical buckets, the forecast dataset at exactly
\* the 6 following indices, no index has a value in both, every forecast
\* value lies on the least-squares line of the historical (index, netFlow)
\* pairs, and the denominator of the fit is not 0.
C24_ForecastDisjointAndFitted ==
  call.fn = "forecast" =>
    LET n == Len(call.processedData)
        historical == result.datasets.historical
        forecast == result.datasets.forecast
        line == ForecastLine(forecast, n)
    IN  /\ n = (IF call.timeFrame = "quarterly" THEN 4 ELSE 12)
        /\ DOMAIN historical = 1..(n + 6)
        /\ DOMAIN forecast = 1..(n + 6)
        /\ \A k \in 1..(n + 6) :
             /\ ~historical[k].null <=> k <= n
             /\ ~forecast[k].null <=> k > n
             /\ historical[k].null \/ forecast[k].null
        /\ \A k \in 1..n :
             historical[k].value = RInt(call.processedData[k].netFlow)
        /\ RegressionDenominator(n) # 0
        /\ \A k \in (n + 1)..(n + 6) :
             /\ isFinite(forecast[k].value)
             /\ forecast[k].value =
                  RAdd(RMul(line.slope, RInt(k - 1)), line.intercept)
        /\ NormalEquations(line, call.processedData)

\* a quarterly window with a rising net flow: the forecast continues it
C24_Witness ==
  /\ call.fn = "forecast"
  /\ call.timeFrame = "quarterly"
  /\ call.processedData[1].netFlow < 0
  /\ call.processedData[4].netFlow > 0
  /\ result.datasets.forecast[5].value.n > 0
  /\ result.datasets.forecast[10].value # result.datasets.forecast[5].value

(***************************************************************************)
(* Claims about the session and the notifications                          *)
(***************************************************************************)
StoredSession ==
  authStorage.auth_token # NULL /\ authStorage.auth_user # AbsentItem

\* C25: after the startup restore and any logins, registrations and
\* logouts, the in-memory token and user are both present or both absent,
\* and present exactly when auth_token and auth_user are both stored.
C25_SessionConsistent ==
  ~isLoading =>
    /\ (authToken # NULL) <=> (authUser # NULL)
    /\ (authToken # NULL) <=> StoredSession

\* C26: after a successful login, a mark-as-read or delete request of the
\* notification panel carries the token that login stored, is accepted by
\* authenticateToken and changes the notification on the server before the
\* list and the count are queried again.
C26_PanelRequestAuthenticated ==
  (call.fn = "mutation" /\ authToken # NULL) =>
    /\ request.token = authStorage.auth_token
    /\ response.status = 200
    /\ result.invalidated
    /\ IF call.op = "read"
         THEN notifications[call.notificationId].isRead
         ELSE ~notifications[call.notificationId].exists

\* C28: a request changes or removes a notification only when it is
\* authenticated as the owner of that notification.
C28_OnlyOwnerAlters ==
  [][\A n \in NotificationIds :
       notifications'[n] # notifications[n]
         => verifyToken(request'.token) = notifications[n].userId]_vars

(***************************************************************************)
(* Claims about the insights of the Cash Flow page                         *)
(***************************************************************************)
\* the dates of the three most recent projections, oldest first
RecentDates(rows) ==
  LET ascending == SortedSeq(DOMAIN rows)
  IN  SubSeq(ascending, Len(ascending) - 2, Len(ascending))

\* C29: on the Cash Flow page the decreasing-trend alert is emitted exactly
\* when the net flow fell from each of the three most recent projections by
\* date to the next one in time.
C29_TrendOverLatestInTime ==
  (call.fn = "generateInsights" /\ Cardinality(DOMAIN call.rows) >= 3) =>
    LET d == RecentDates(call.rows)
        fell == /\ call.rows[d[1]] > call.rows[d[2]]
                /\ call.rows[d[2]] > call.rows[d[3]]
    IN  fell <=> (\E i \in 1..Len(result.insights) : result.insights[i] = TrendAlert)

\* the pattern insights of the run
PatternsOf(insights) ==
  {i \in 1..Len(insights) : insights[i].type = "pattern"}

\* C30: one run of generateInsights emits at most three pattern insights,
\* at most one of them with priority high.
C30_PatternInsightsBounded ==
  call.fn = "generateInsights" =>
    /\ Cardinality(PatternsOf(result.insights)) <= 3
    /\ Cardinality({i \in PatternsOf(result.insights) :
                      result.insights[i].priority = "high"}) <= 1

====
